---------------------------- MODULE Spec2Model ----------------------------
(***************************************************************************)
(* A model of textpipe: the Doc facade (textpipe/doc.py) with its          *)
(* functools.lru_cache memoization, lazy language detection and spaCy      *)
(* model registry, and the Pipeline (textpipe/pipeline.py) that composes   *)
(* named operations (textpipe/operation.py) over one Doc per call.         *)
(*                                                                         *)
(* Python values are modelled as follows.  None is the string "None",      *)
(* True/False are "True"/"False", a str is a sequence of one-character     *)
(* strings (non-ASCII characters are written by their code point, e.g.     *)
(* "U+2026" for the ellipsis), a tuple or list is a sequence and a dict    *)
(* is a function (a record for string keys that are known) or, where the   *)
(* insertion order matters, a sequence of <<key, value>> pairs.            *)
(***************************************************************************)
EXTENDS Integers, Sequences, FiniteSets, TLC

VARIABLES
    docs,        \* Seq of Doc objects, in creation order (index = identity)
    registries,  \* Seq of {lang -> {model_id -> model}} dicts (_spacy_nlps)
    lru,         \* the functools.lru_cache of each decorated Doc method
    stats,       \* instrumentation: how often each collaborator was run
    handed,      \* instrumentation: annotation objects handed to accessors
    seen,        \* instrumentation: the calls made on Docs, with their results
    pipes,       \* Seq of Pipeline objects
    calls,       \* Seq of Pipeline.__call__ activations
    files,       \* Seq of files written by Pipeline.save
    gensim       \* the gensim vector tables of Docs and Pipelines, and Redis

vars == <<docs, registries, lru, stats, handed, seen, pipes, calls, files, gensim>>

-----------------------------------------------------------------------------
(* Bounds of the model                                                     *)

MaxDocs == 1
MaxLruDocs == 129
MaxPipes == 1
MaxSteps == 3
MaxCalls == 1
MaxFiles == 1
MaxThreads == 2
MaxModelCalls == 2
MaxEmbedCalls == 2

(* functools.lru_cache() is applied without arguments: maxsize = 128       *)
LRU_MAXSIZE == 128

None == "None"
True == "True"
False == "False"

(* Truthiness of the Python values used in conditions                      *)
Truthy(v) == v \notin {None, "", False}

Bool(b) == IF b THEN True ELSE False

-----------------------------------------------------------------------------
(* Generic sequence helpers                                                *)

Last(s) == s[Len(s)]

SeqWithout(s, i) == SubSeq(s, 1, i - 1) \o SubSeq(s, i + 1, Len(s))

-----------------------------------------------------------------------------
(* Texts.  A str is a sequence of characters.                              *)

ELLIPSIS == "U+2026"
SingleQuoteVariants == {"U+0060", "U+2018", "U+2019", "U+201B", "U+2E02",
                        "U+2E03", "U+2E0C", "U+2E0D", "U+2E1C", "U+2E1D"}
DoubleQuoteVariants == {"U+201E", "U+201C"}
Whitespace == {" ", "NL", "TAB", "U+00A0"}
Punctuation == {".", ",", "'", "DQ", "<", ">", "/", "=", ELLIPSIS}
                   \cup SingleQuoteVariants \cup DoubleQuoteVariants

IsLetter(c) == c \notin Whitespace \cup Punctuation

(* BeautifulSoup(text, 'html.parser').get_text(): markup "<" name ... ">"  *)
(* or "</" name ">" is dropped, everything else is text.  A "<" that does  *)
(* not open a tag (not followed by a letter or "/", or never closed) is    *)
(* text.                                                                   *)
RECURSIVE HasClose(_)
HasClose(s) == IF s = <<>> THEN FALSE
               ELSE IF Head(s) = ">" THEN TRUE ELSE HasClose(Tail(s))

RECURSIVE AfterClose(_)
AfterClose(s) == IF s = <<>> THEN <<>>
                 ELSE IF Head(s) = ">" THEN Tail(s) ELSE AfterClose(Tail(s))

OpensTag(s) == /\ Len(s) >= 2
               /\ s[1] = "<"
               /\ (IsLetter(s[2]) \/ s[2] = "/")
               /\ HasClose(s)

RECURSIVE get_text(_)
get_text(s) == IF s = <<>> THEN <<>>
               ELSE IF OpensTag(s) THEN get_text(AfterClose(s))
               ELSE <<Head(s)>> \o get_text(Tail(s))

(* re.sub(r'...', '...', text) with the one-character ellipsis             *)
RECURSIVE sub_dots(_)
sub_dots(s) == IF s = <<>> THEN <<>>
               ELSE IF Head(s) = ELLIPSIS
                    THEN <<".", ".", ".">> \o sub_dots(Tail(s))
                    ELSE <<Head(s)>> \o sub_dots(Tail(s))

(* re.sub(r'[...]', "'", text) over the ten single-quote variants          *)
sub_single_quotes(s) ==
    [i \in 1..Len(s) |-> IF s[i] \in SingleQuoteVariants THEN "'" ELSE s[i]]

(* re.sub(r'[..]|(\'\')|(,,)', '"', text): leftmost, non-overlapping       *)
RECURSIVE sub_double_quotes(_)
sub_double_quotes(s) ==
    IF s = <<>> THEN <<>>
    ELSE IF Head(s) \in DoubleQuoteVariants
         THEN <<"DQ">> \o sub_double_quotes(Tail(s))
    ELSE IF Len(s) >= 2 /\ s[1] = "'" /\ s[2] = "'"
         THEN <<"DQ">> \o sub_double_quotes(Tail(Tail(s)))
    ELSE IF Len(s) >= 2 /\ s[1] = "," /\ s[2] = ","
         THEN <<"DQ">> \o sub_double_quotes(Tail(Tail(s)))
    ELSE <<Head(s)>> \o sub_double_quotes(Tail(s))

(* re.sub(r'\s+', ' ', text)                                               *)
RECURSIVE sub_whitespace(_)
sub_whitespace(s) ==
    IF s = <<>> THEN <<>>
    ELSE IF Head(s) \in Whitespace
         THEN IF Len(s) >= 2 /\ s[2] \in Whitespace
              THEN sub_whitespace(Tail(s))
              ELSE <<" ">> \o sub_whitespace(Tail(s))
    ELSE <<Head(s)>> \o sub_whitespace(Tail(s))

(* str.strip()                                                             *)
RECURSIVE lstrip(_)
lstrip(s) == IF s # <<>> /\ Head(s) \in Whitespace THEN lstrip(Tail(s)) ELSE s

RECURSIVE rstrip(_)
rstrip(s) == IF s # <<>> /\ Last(s) \in Whitespace
             THEN rstrip(SubSeq(s, 1, Len(s) - 1)) ELSE s

strip(s) == rstrip(lstrip(s))

(* The body of Doc.clean_text, a pure function of raw and the four flags   *)
clean_text_body(raw, remove_html, clean_dots, clean_quotes, clean_whitespace) ==
    LET t1 == IF Truthy(remove_html) THEN get_text(raw) ELSE raw
        t2 == IF Truthy(clean_dots) THEN sub_dots(t1) ELSE t1
        t3 == IF Truthy(clean_quotes)
              THEN sub_double_quotes(sub_single_quotes(t2)) ELSE t2
        t4 == IF Truthy(clean_whitespace) THEN strip(sub_whitespace(t3)) ELSE t3
    IN  t4

(* What the spaCy tokenizer yields on the model's texts: one token per     *)
(* maximal run of letters and one per punctuation character.               *)
RECURSIVE tokens(_)
tokens(s) ==
    IF s = <<>> THEN 0
    ELSE IF Head(s) \in Whitespace THEN tokens(Tail(s))
    ELSE IF IsLetter(Head(s)) /\ Len(s) >= 2 /\ IsLetter(s[2])
         THEN tokens(Tail(s))
    ELSE 1 + tokens(Tail(s))

(* The raw texts the model's Docs are built from.                          *)
TEXT_EMPTY == <<>>
TEXT_DOTS == <<".", ".", ".">>
TEXT_TEST == <<"T", "e", "s", "t">>
TEXT_HTML == <<"U+201C", "a", ELLIPSIS, " ", " ", "b", "<", "/", "b", ">", "U+201E">>

TEXT_ELLIPSIS == <<"a", ELLIPSIS>>

Texts == {TEXT_EMPTY, TEXT_DOTS, TEXT_TEST, TEXT_HTML}

(* the raw of Doc(None): the value None, written as a sequence so that it  *)
(* can stand where a str stands                                            *)
RAW_NONE == <<"None">>

(* CleanDoc.__init__ of the package textpipe/doc: self._raw = raw or ''    *)
CleanDoc_raw(raw) == IF raw = RAW_NONE \/ raw = <<>> THEN <<>> ELSE raw

-----------------------------------------------------------------------------
(* Calls.  A call is the positional arguments after self and the keyword   *)
(* arguments in the order written.  All argument values are strings.       *)

Call(args, kw) == [args |-> args, kw |-> kw]
NoArgs == Call(<<>>, <<>>)

HasKw(call, name) == \E j \in 1..Len(call.kw) : call.kw[j][1] = name
KwValue(call, name) ==
    call.kw[CHOOSE j \in 1..Len(call.kw) : call.kw[j][1] = name][2]

(* Python's binding of a call to the parameters params with defaults       *)
Bind(params, defaults, call) ==
    [i \in 1..Len(params) |->
        IF i <= Len(call.args) THEN call.args[i]
        ELSE IF HasKw(call, params[i]) THEN KwValue(call, params[i])
        ELSE defaults[i]]

(* functools._make_key: the positional arguments as passed (self first),   *)
(* then the keyword items as passed.  Defaults are not filled in.          *)
make_key(self, call) == <<self, call.args, call.kw>>

-----------------------------------------------------------------------------
(* functools.lru_cache: entries in recency order, least recent first       *)

LruHas(cache, key) == \E i \in 1..Len(cache) : cache[i].key = key
LruIndex(cache, key) == CHOOSE i \in 1..Len(cache) : cache[i].key = key
LruValue(cache, key) == cache[LruIndex(cache, key)].val

(* a hit moves the entry to the most recent end                            *)
LruTouch(cache, key) ==
    LET i == LruIndex(cache, key)
    IN  SeqWithout(cache, i) \o <<cache[i]>>

(* a miss stores the result; a full cache drops its least recent entry     *)
LruInsert(cache, key, val) ==
    LET c == Append(cache, [key |-> key, val |-> val])
    IN  IF Len(c) > LRU_MAXSIZE THEN Tail(c) ELSE c

(* Results of a call: the heap after it, the value returned, the           *)
(* exception raised (kind None when it returned)                           *)
NoExc == [kind |-> None, msg |-> <<>>]
Exc(kind, msg) == [kind |-> kind, msg |-> msg]
R(st, val, exc) == [st |-> st, val |-> val, exc |-> exc]
Ret(st, val) == R(st, val, NoExc)
Raise(st, kind, msg) == R(st, None, Exc(kind, msg))
Raised(r) == r.exc.kind # None

(* e is evaluated once and its value given to K                            *)
With(e, K(_)) == CHOOSE y \in {K(x) : x \in {e}} : TRUE

(* The heap: everything a method of Doc can read or write                  *)
EmptyGensim == [tables |-> <<>>, redis |-> <<>>]

Heap == [docs |-> docs, registries |-> registries, lru |-> lru,
         stats |-> stats, handed |-> handed, gensim |-> gensim]

(* a method decorated with @functools.lru_cache(): exceptions are not      *)
(* cached                                                                  *)
lru_cache(st, f, key, body) ==
    IF LruHas(st.lru[f], key)
    THEN Ret([st EXCEPT !.lru[f] = LruTouch(@, key)], LruValue(st.lru[f], key))
    ELSE With(body, LAMBDA r :
            IF Raised(r) THEN r
            ELSE Ret([r.st EXCEPT !.lru[f] = LruInsert(@, key, r.val)], r.val))

(* instrumentation counters                                                *)
Count(f, k) == IF k \in DOMAIN f THEN f[k] ELSE 0
Bump(f, k) == IF k \in DOMAIN f THEN [f EXCEPT ![k] = @ + 1] ELSE f @@ (k :> 1)

-----------------------------------------------------------------------------
(* Doc.clean_text and Doc.clean                                            *)

CleanParams == <<"remove_html", "clean_dots", "clean_quotes", "clean_whitespace">>
CleanDefaults == <<True, True, True, True>>

(* text = self.raw; BeautifulSoup(None, ...) and re.sub(..., None) raise    *)
(* TypeError, and without any pass None itself is returned                 *)
clean_text_uncached(st, d, call) ==
    LET flags == Bind(CleanParams, CleanDefaults, call)
        st1 == IF Truthy(flags[1])
               THEN [st EXCEPT !.stats.get_text = Bump(@, <<d, flags>>)]
               ELSE st
    IN  IF st.docs[d].raw = RAW_NONE
        THEN IF \E i \in 1..4 : Truthy(flags[i])
             THEN Raise(st, "TypeError", <<"NoneType">>)
             ELSE Ret(st, RAW_NONE)
        ELSE Ret(st1, clean_text_body(st.docs[d].raw, flags[1], flags[2], flags[3],
                                      flags[4]))

clean_text(st, d, call) ==
    lru_cache(st, "clean_text", make_key(d, call),
              clean_text_uncached(st, d, call))

clean(st, d) == clean_text(st, d, NoArgs)

-----------------------------------------------------------------------------
(* Language detection                                                      *)

Langs == {"en", "nl"}

(* unicodedata.category(l)[0] in {'M', 'C'}                                *)
MarkOrControl == {"NL", "TAB", "U+0003"}

(* cld2.detect(text, hintLanguage=hint, bestEffort=True), an external      *)
(* detector: (isReliable, code of the best guess).  On the model's texts:  *)
(* no letter at all gives the unknown language; a text with a word of two  *)
(* or more letters is detected reliably, as the hinted language when a     *)
(* hint is given (Doc('Test').detect_language('nl') is (True, 'nl')) and   *)
(* as English otherwise; single letters give an unreliable best guess.     *)
HasWord(t) == \E i \in 1..(Len(t) - 1) : IsLetter(t[i]) /\ IsLetter(t[i + 1])
HasLetter(t) == \E i \in 1..Len(t) : IsLetter(t[i])

cld2_detect(t, hint) ==
    IF ~HasLetter(t) THEN <<False, "un">>
    ELSE IF HasWord(t) THEN <<True, IF hint \in Langs THEN hint ELSE "en">>
    ELSE <<False, "nl">>

detect_language_uncached(st, d, call) ==
    With(clean(st, d), LAMBDA c :
        LET hint == Bind(<<"hint_language">>, <<None>>, call)[1]
            none_utf_chars_removed ==
                SelectSeq(c.val, LAMBDA l : l \notin MarkOrControl)
            guess == cld2_detect(none_utf_chars_removed, hint)
            st1 == [c.st EXCEPT !.stats.cld2 = Bump(@, d)]
        IN  IF Raised(c) THEN c
            ELSE IF guess[2] = "un" THEN Ret(st1, <<False, "un">>)
            ELSE Ret(st1, guess))

detect_language(st, d, call) ==
    lru_cache(st, "detect_language", make_key(d, call),
              detect_language_uncached(st, d, call))

(* self._is_reliable_language, self._language =                           *)
(*     self.detect_language(self.hint_language)                            *)
(* (stats.cld2_prop counts the detector runs these assignments caused)     *)
detect_and_store(st, d) ==
    With(detect_language(st, d, Call(<<st.docs[d].hint_language>>, <<>>)), LAMBDA r :
        LET ran == Count(r.st.stats.cld2, d) - Count(st.stats.cld2, d)
        IN  IF Raised(r) THEN r
            ELSE Ret([r.st EXCEPT !.docs[d].is_reliable = r.val[1],
                                  !.docs[d].language = r.val[2],
                                  !.stats.cld2_prop =
                                      (d :> (Count(@, d) + ran)) @@ @],
                     r.val))

(* a language property that detects again on every read                    *)
language_redetect(st, d) ==
    With(detect_and_store(st, d), LAMBDA r :
        IF Raised(r) THEN r ELSE Ret(r.st, r.st.docs[d].language))

language(st, d) ==
    IF ~Truthy(st.docs[d].language)
    THEN With(detect_and_store(st, d), LAMBDA r :
            IF Raised(r) THEN r ELSE Ret(r.st, r.st.docs[d].language))
    ELSE Ret(st, st.docs[d].language)

(* a reliability property that detects on every read                       *)
is_reliable_language_redetect(st, d) ==
    With(detect_and_store(st, d), LAMBDA r :
        IF Raised(r) THEN r ELSE Ret(r.st, r.st.docs[d].is_reliable))

is_reliable_language(st, d) ==
    IF st.docs[d].is_reliable = None
    THEN With(detect_and_store(st, d), LAMBDA r :
            IF Raised(r) THEN r ELSE Ret(r.st, r.st.docs[d].is_reliable))
    ELSE Ret(st, st.docs[d].is_reliable)

(* lang = self.language if self.is_reliable_language else self.hint_language *)
effective_language(st, d) ==
    With(is_reliable_language(st, d), LAMBDA rel :
        IF Raised(rel) THEN rel
        ELSE IF Truthy(rel.val) THEN language(rel.st, d)
        ELSE Ret(rel.st, rel.st.docs[d].hint_language))

-----------------------------------------------------------------------------
(* spaCy models and annotations                                            *)

(* the languages whose default model {lang}_core_{web|news}_sm is installed *)
InstalledLangs == {"en", "nl"}

MissingModel == "TextpipeMissingModelException"

EmptyDict == <<>>

(* dict[k] = v                                                             *)
DictSet(dict, k, v) == (k :> v) @@ dict

(* Doc._get_default_nlp: a static method under lru_cache, keyed by lang    *)
get_default_nlp_uncached(st, lang) ==
    IF lang \in InstalledLangs
    THEN Ret([st EXCEPT !.stats.spacy_load = Bump(@, <<"default", lang>>)],
             <<"default", lang>>)
    ELSE Raise(st, MissingModel, <<"default", lang>>)

get_default_nlp(st, lang) ==
    lru_cache(st, "get_default_nlp", <<lang>>,
              get_default_nlp_uncached(st, lang))

(* Doc._load_spacy_doc(lang, model_name=None)                              *)
load_spacy_doc_uncached(st, d, call) ==
    LET b == Bind(<<"lang", "model_name">>, <<None, None>>, call)
        lang == b[1]
        model_name == b[2]
        ri == st.docs[d].nlps
        reg == st.registries[ri]
        need_default == \/ lang \notin DOMAIN reg
                        \/ (model_name = None /\ None \notin DOMAIN reg[lang])
        reg1 == IF need_default /\ lang \notin DOMAIN reg
                THEN DictSet(reg, lang, EmptyDict) ELSE reg
        st1 == [st EXCEPT !.registries[ri] = reg1]
    IN  With(IF need_default THEN get_default_nlp(st1, lang) ELSE Ret(st1, None),
             LAMBDA g :
        LET reg2 == IF need_default
                    THEN [reg1 EXCEPT ![lang] = DictSet(@, None, g.val)] ELSE reg1
            st2 == [g.st EXCEPT !.registries[ri] = reg2]
            k == <<d, lang, model_name>>
        IN  IF Raised(g) THEN g
            ELSE IF model_name \notin DOMAIN reg2[lang] /\ model_name # None
            THEN Raise(st2, MissingModel, <<"custom", model_name>>)
            ELSE With(clean_text(st2, d, NoArgs), LAMBDA c :
                    IF Raised(c) THEN c
                    ELSE Ret([c.st EXCEPT !.stats.nlp = Bump(@, k)],
                             [doc |-> d, lang |-> lang, model |-> model_name,
                              nlp |-> reg2[lang][model_name], text |-> c.val,
                              serial |-> Count(c.st.stats.nlp, k) + 1])))

(* every annotation object an accessor receives is recorded in handed      *)
load_spacy_doc(st, d, call) ==
    With(lru_cache(st, "load_spacy_doc", make_key(d, call),
                   load_spacy_doc_uncached(st, d, call)),
         LAMBDA r :
        LET k == <<d, r.val.lang, r.val.model>>
        IN  IF Raised(r) THEN r
            ELSE Ret([r.st EXCEPT !.handed =
                          (k :> ((IF k \in DOMAIN @ THEN @[k] ELSE {})
                                    \cup {r.val.serial})) @@ @],
                     r.val))

(* the property Doc._spacy_doc                                             *)
spacy_doc(st, d) ==
    With(effective_language(st, d), LAMBDA l :
        IF Raised(l) THEN l ELSE load_spacy_doc(l.st, d, Call(<<l.val>>, <<>>)))

(* Doc.words / Doc.nwords                                                  *)
nwords(st, d) ==
    With(spacy_doc(st, d), LAMBDA a :
        IF Raised(a) THEN a ELSE Ret(a.st, tokens(a.val.text)))

(* Doc.find_ents(model_name=None, ent_attributes=('text', 'label_')): the  *)
(* entity list is a function of the annotation and the attributes          *)
find_ents_uncached(st, d, call) ==
    LET b == Bind(<<"model_name", "ent_attributes">>, <<None, "text,label_">>, call)
    IN  With(effective_language(st, d), LAMBDA l :
            IF Raised(l) THEN l
            ELSE With(load_spacy_doc(l.st, d, Call(<<l.val, b[1]>>, <<>>)), LAMBDA a :
                    IF Raised(a) THEN a
                    ELSE Ret(a.st, [ents_of |-> a.val, attrs |-> b[2]])))

find_ents(st, d, call) ==
    lru_cache(st, "find_ents", make_key(d, call),
              find_ents_uncached(st, d, call))

ents(st, d) == find_ents(st, d, NoArgs)

(* Doc.sentiment                                                           *)
SentimentLangs == {"en", "nl", "fr", "it"}

sentiment(st, d) ==
    With(language(st, d), LAMBDA l :
        IF Raised(l) THEN l
        ELSE IF l.val \in SentimentLangs
        THEN With(clean(l.st, d), LAMBDA c :
                IF Raised(c) THEN c
                ELSE Ret(c.st, [sentiment_of |-> c.val, lang |-> l.val]))
        ELSE Raise(l.st, MissingModel, <<"sentiment", l.val>>))

(* the Python list a value of find_ents stands for: spaCy finds no entity  *)
(* in an annotation without tokens                                         *)
ent_list(v) == IF tokens(v.ents_of.text) = 0 THEN <<>> ELSE <<v>>

(* Doc.nsents: len(list(self._spacy_doc.sents)); the model's texts are at  *)
(* most one sentence long                                                  *)
sents(s) == IF tokens(s) = 0 THEN 0 ELSE 1

nsents(st, d) ==
    With(spacy_doc(st, d), LAMBDA a :
        IF Raised(a) THEN a ELSE Ret(a.st, sents(a.val.text)))

(* the words textacy counts: the tokens that are not punctuation, each of  *)
(* one syllable on the model's texts                                       *)
RECURSIVE words(_)
words(s) ==
    IF s = <<>> THEN 0
    ELSE IF ~IsLetter(Head(s)) THEN words(Tail(s))
    ELSE IF Len(s) >= 2 /\ IsLetter(s[2]) THEN words(Tail(s))
    ELSE 1 + words(Tail(s))

(* textacy.TextStats(doc)                                                  *)
TextStats(a) ==
    [n_sents |-> sents(a.text), n_words |-> words(a.text),
     n_syllables |-> words(a.text)]

(* TextStats.flesch_reading_ease:                                          *)
(* 206.835 - 1.015 * n_words / n_sents - 84.6 * n_syllables / n_words, in  *)
(* whole numbers                                                           *)
flesch_reading_ease(st, ts) ==
    IF ts.n_sents = 0 \/ ts.n_words = 0
    THEN Raise(st, "ZeroDivisionError", <<"division by zero">>)
    ELSE Ret(st, 207 - (ts.n_words \div ts.n_sents)
                     - 85 * (ts.n_syllables \div ts.n_words))

(* complexity without its zero-syllable case                              *)
complexity_unguarded(st, d) ==
    LET fresh == st.docs[d].text_stats = EmptyDict
    IN  With(IF fresh THEN spacy_doc(st, d) ELSE Ret(st, None), LAMBDA a :
            IF Raised(a) THEN a
            ELSE LET ts == IF fresh THEN TextStats(a.val)
                           ELSE st.docs[d].text_stats[1]
                     st1 == [a.st EXCEPT !.docs[d].text_stats = <<ts>>]
                 IN  flesch_reading_ease(st1, ts))

(* Doc.complexity: the statistics are computed once per Doc                *)
complexity(st, d) ==
    LET fresh == st.docs[d].text_stats = EmptyDict
    IN  With(IF fresh THEN spacy_doc(st, d) ELSE Ret(st, None), LAMBDA a :
            IF Raised(a) THEN a
            ELSE LET ts == IF fresh THEN TextStats(a.val)
                           ELSE st.docs[d].text_stats[1]
                     st1 == [a.st EXCEPT !.docs[d].text_stats = <<ts>>]
                 IN  IF ts.n_syllables = 0 THEN Ret(st1, 100)
                     ELSE flesch_reading_ease(st1, ts))

(* Doc.extract_keyterms(ranker='textrank', n_terms=10, **kwargs)           *)
Rankers == <<"textrank", "sgrank", "scake", "yake">>

KeytermParams == <<"ranker", "n_terms">>

extract_keyterms_uncached(st, d, call) ==
    LET b == Bind(KeytermParams, <<"textrank", "10">>, call)
        ranker == b[1]
        kwargs == SelectSeq(call.kw, LAMBDA p : p[1] \notin {"ranker", "n_terms"})
    IN  With(nwords(st, d), LAMBDA n :
            IF Raised(n) THEN n
            ELSE IF n.val < 1 THEN Ret(n.st, <<>>)
            ELSE IF \A i \in 1..Len(Rankers) : Rankers[i] # ranker
            THEN Raise(n.st, "ValueError", <<ranker>> \o Rankers)
            ELSE With(spacy_doc(n.st, d), LAMBDA a :
                    IF Raised(a) THEN a
                    ELSE Ret(a.st, <<[keyterms_of |-> a.val, ranker |-> ranker,
                                      topn |-> b[2], kwargs |-> kwargs]>>)))

extract_keyterms(st, d, call) ==
    lru_cache(st, "extract_keyterms", make_key(d, call),
              extract_keyterms_uncached(st, d, call))

-----------------------------------------------------------------------------
(* gensim keyed vectors, from a file or from Redis                         *)

KV_NL == "tests/models/gensim_test_nl.kv"
KV_OTHER == "other/model_nl.kv"
KV_ABSENT == "no/such/file.kv"
REDIS_URI == "redis://localhost:6379/0"

(* the keyed vector files that exist, with the words of their vocabulary   *)
(* and the sum of the counts of those words                                *)
KvFiles == {KV_NL, KV_OTHER}
Vocab(path) == {<<"t", "e", "s", "t">>}
TrainTokens(path) == IF path = KV_NL THEN 10 ELSE 20

(* urlparse(model_uri).scheme == 'redis'                                   *)
RedisUris == {REDIS_URI}

(* str.lower on the letters of the model's texts                           *)
lower(w) == [i \in 1..Len(w) |-> IF w[i] = "T" THEN "t" ELSE w[i]]

(* the texts of the tokens of an annotation: Doc.words                     *)
RECURSIVE token_list(_, _)
token_list(s, cur) ==
    LET done == IF cur = <<>> THEN <<>> ELSE <<cur>>
    IN  IF s = <<>> THEN done
        ELSE IF IsLetter(Head(s)) THEN token_list(Tail(s), Append(cur, Head(s)))
        ELSE done \o (IF Head(s) \in Whitespace THEN <<>> ELSE <<<<Head(s)>>>>)
                  \o token_list(Tail(s), <<>>)

(* Doc.word_counts: dict(Counter(word for word, _ in self.words)), as the  *)
(* set of its items                                                        *)
word_counts(st, d) ==
    With(spacy_doc(st, d), LAMBDA a :
        LET ws == token_list(a.val.text, <<>>)
        IN  IF Raised(a) THEN a
            ELSE Ret(a.st, {<<ws[i], Cardinality({j \in 1..Len(ws) : ws[j] = ws[i]})>> :
                               i \in 1..Len(ws)}))

(* the dict a Doc holds as _gensim_vectors: its own (0), or the dict of    *)
(* the Pipeline that made the Doc.  A dict without entries is not stored.  *)
TableOf(st, d) ==
    IF st.docs[d].gensim_vectors = 0 THEN <<"doc", d>>
    ELSE <<"pipe", st.docs[d].gensim_vectors>>

Table(st, tk) == IF tk \in DOMAIN st.gensim.tables THEN st.gensim.tables[tk] ELSE EmptyDict

(* RedisKeyedVectors.__init__(uri, key='', max_lru_cache_size=1024,        *)
(* idf_weighting='naive')                                                  *)
RedisKeyedVectors(uri, key, idf_weighting) ==
    [kind |-> "redis", uri |-> uri, key |-> <<"w2v", key>>,
     idf_weighting |-> idf_weighting]

(* RedisKeyedVectors.exists and RedisKeyedVectors.__contains__             *)
redis_exists(st, m) == m.key \in DOMAIN st.gensim.redis
redis_contains(st, m, word) ==
    redis_exists(st, m) /\ word \in Vocab(st.gensim.redis[m.key].path)

(* word in model, for either kind of model                                 *)
in_model(st, m, word) ==
    IF m.kind = "redis" THEN redis_contains(st, m, word) ELSE word \in Vocab(m.path)

(* Doc._load_gensim_word2vec_model(model_uri, max_lru_cache_size)          *)
load_gensim_word2vec_model(st, d, model_uri) ==
    With(effective_language(st, d), LAMBDA l :
        LET lang == l.val
            tk == TableOf(l.st, d)
            table == Table(l.st, tk)
            stored(st1, vectors) ==
                [st1 EXCEPT !.gensim.tables = DictSet(@, tk, DictSet(table, lang, vectors))]
        IN  IF Raised(l) THEN l
            ELSE IF lang \in DOMAIN table THEN Ret(l.st, table[lang])
            ELSE IF model_uri \in RedisUris
            THEN LET vectors == RedisKeyedVectors(model_uri, lang, "naive")
                 IN  IF ~redis_exists(l.st, vectors)
                     THEN Raise(l.st, MissingModel, <<"redis", lang>>)
                     ELSE Ret(stored(l.st, vectors), vectors)
            ELSE IF Truthy(model_uri)
            THEN LET vectors == [kind |-> "file", path |-> model_uri]
                 IN  IF model_uri \notin KvFiles
                     THEN Raise(l.st, MissingModel, <<"file", model_uri>>)
                     ELSE Ret(stored([l.st EXCEPT !.docs[d].nr_train_tokens =
                                                     TrainTokens(model_uri)], vectors),
                              vectors)
            ELSE Raise(l.st, MissingModel, <<"unspecified">>))

EmbeddingParams == <<"model_uri", "lowercase", "max_lru_cache_size", "idf_weighting">>
EmbeddingDefaults == <<None, True, "1024", "naive">>

MismatchError == "RedisIDFWeightingMismatchException"

(* Doc.generate_gensim_document_embedding: the sum of the word vectors is  *)
(* the set of its terms; a term names the vector, the count and the idf    *)
generate_gensim_document_embedding_uncached(st, d, call) ==
    LET b == Bind(EmbeddingParams, EmbeddingDefaults, call)
        model_uri == b[1]
        lowercase == b[2]
        idf_weighting == b[4]
    IN  IF ~Truthy(model_uri) THEN Raise(st, MissingModel, <<"no location">>)
        ELSE With(load_gensim_word2vec_model(st, d, model_uri), LAMBDA m :
            IF Raised(m) THEN m
            ELSE With(word_counts(m.st, d), LAMBDA wc :
                LET model == m.val
                    cased(word) == IF Truthy(lowercase) THEN lower(word) ELSE word
                    prepared_word_counts ==
                        {<<cased(p[1]), p[2]>> :
                            p \in {q \in wc.val : in_model(wc.st, model, cased(q[1]))}}
                    nr_train_tokens == wc.st.docs[d].nr_train_tokens
                IN  IF Raised(wc) THEN wc
                    ELSE IF prepared_word_counts = {} THEN Ret(wc.st, <<>>)
                    ELSE IF model.kind = "redis"
                    THEN IF model.idf_weighting # idf_weighting
                         THEN Raise(wc.st, MismatchError,
                                    <<idf_weighting, model.idf_weighting>>)
                         ELSE Ret(wc.st,
                                  <<{[word |-> p[1], count |-> p[2],
                                      vector |-> <<"redis", wc.st.gensim.redis[model.key].path>>,
                                      idf |-> <<wc.st.gensim.redis[model.key].idf_weighting>>] :
                                        p \in prepared_word_counts}>>)
                    ELSE IF idf_weighting \notin {"naive", "log"}
                    THEN Raise(wc.st, "ValueError", <<idf_weighting>>)
                    ELSE Ret(wc.st,
                             <<{[word |-> p[1], count |-> p[2],
                                 vector |-> <<"file", model.path>>,
                                 idf |-> IF idf_weighting = "naive" THEN <<"naive">>
                                         ELSE <<"log", nr_train_tokens>>] :
                                   p \in prepared_word_counts}>>)))

generate_gensim_document_embedding(st, d, call) ==
    lru_cache(st, "generate_gensim_document_embedding", make_key(d, call),
              generate_gensim_document_embedding_uncached(st, d, call))

-----------------------------------------------------------------------------
(* Operations (textpipe/operation.py) and the Pipeline                     *)

(* A dict with string keys is a sequence of <<key, type, payload>> items   *)
(* in insertion order; a value is its Python type and a payload, a         *)
(* sequence of strings (the flattened key, value pairs for a dict value).  *)
DictHas(dict, k) == \E j \in 1..Len(dict) : dict[j][1] = k
DictItem(dict, k) == dict[CHOOSE j \in 1..Len(dict) : dict[j][1] = k]

(* lookup in a flattened {key: value} payload                              *)
PayloadHas(pl, k) == \E j \in 1..Len(pl) : j % 2 = 1 /\ pl[j] = k
PayloadGet(pl, k) == pl[(CHOOSE j \in 1..Len(pl) : j % 2 = 1 /\ pl[j] = k) + 1]

(* the operation classes of the module that the model executes             *)
OperationClasses == {"Language", "CleanText", "Raw", "NWords", "Entities", "Sentiment",
                     "GensimDocumentEmbedding"}

(* the other attributes of the module textpipe.operation that getattr      *)
(* finds: the base class and the imported exception class                  *)
OtherModuleAttrs == {"Operation", "TextpipeMissingModelException"}

(* getattr(textpipe.operation, oper_name), then oper_cls called with the    *)
(* step's keyword arguments                                                *)
new_operation(oper_name, oper_kwargs) ==
    IF oper_name \in OperationClasses
    THEN [exc |-> NoExc,
          op |-> [kind |-> "operation", cls |-> oper_name, kwargs |-> oper_kwargs]]
    ELSE IF oper_name \in OtherModuleAttrs
    THEN IF oper_kwargs = <<>>
         THEN [exc |-> NoExc,
               op |-> [kind |-> IF oper_name = "Operation" THEN "abstract" ELSE "object",
                       cls |-> oper_name, kwargs |-> oper_kwargs]]
         ELSE [exc |-> Exc("TypeError", <<oper_name>>), op |-> None]
    ELSE [exc |-> Exc("AttributeError", <<oper_name>>), op |-> None]

(* Operation.get_model                                                     *)
get_model(st, op, d) ==
    With(effective_language(st, d), LAMBDA l :
        LET mapping == DictItem(op.kwargs, "model_mapping")[3]
        IN  IF Raised(l) THEN l
            ELSE IF PayloadHas(mapping, l.val) THEN Ret(l.st, PayloadGet(mapping, l.val))
            ELSE Raise(l.st, MissingModel, <<"mapping", l.val>>))

(* Entities.__call__; find_ents is under lru_cache, which hashes its       *)
(* arguments: a list is unhashable                                         *)
EntAttributes(op) ==
    IF DictHas(op.kwargs, "ent_attributes")
    THEN DictItem(op.kwargs, "ent_attributes") ELSE <<"ent_attributes", "tuple", <<"text", "label_">>>>

AttrsArg(item) == IF item[3] = <<"text", "label_">> THEN "text,label_" ELSE "text"

entities_call(st, op, d) ==
    LET attrs == EntAttributes(op)
        has_mapping == DictHas(op.kwargs, "model_mapping")
                       /\ DictItem(op.kwargs, "model_mapping")[3] # <<>>
    IN  IF ~has_mapping
        THEN IF attrs[3] = <<>> THEN ents(st, d)
             ELSE IF attrs[2] = "list" THEN Raise(st, "TypeError", <<"unhashable", "list">>)
             ELSE find_ents(st, d, Call(<<>>, <<<<"ent_attributes", AttrsArg(attrs)>>>>))
        ELSE With(get_model(st, op, d), LAMBDA m :
                IF Raised(m) THEN m
                ELSE IF attrs[2] = "list"
                THEN Raise(m.st, "TypeError", <<"unhashable", "list">>)
                ELSE find_ents(m.st, d, Call(<<>>, <<<<"model_name", m.val>>,
                                                    <<"ent_attributes", AttrsArg(attrs)>>>>)))

(* GensimDocumentEmbedding.__init__ and __call__                           *)
KwOr(op, name, default) ==
    IF DictHas(op.kwargs, name) THEN DictItem(op.kwargs, name)[3][1] ELSE default

gensim_call(st, op, d) ==
    IF ~DictHas(op.kwargs, "model_mapping")
    THEN With(effective_language(st, d), LAMBDA l :
            IF Raised(l) THEN l ELSE Raise(l.st, "TypeError", <<"NoneType">>))
    ELSE With(get_model(st, op, d), LAMBDA m :
            IF Raised(m) THEN m
            ELSE generate_gensim_document_embedding(m.st, d,
                     Call(<<m.val, KwOr(op, "lowercase", True),
                            KwOr(op, "max_lru_cache_size", "1024"),
                            KwOr(op, "idf_weighting", "naive")>>, <<>>)))

(* the value of a step that returns the context dict it was given: the     *)
(* dict object itself, not a copy                                          *)
ContextRef == <<"<the context dict>">>

(* target_operation(doc, context=data, settings=settings); the functions   *)
(* are those tests/test_pipeline.py registers as operations                *)
apply_operation(st, op, d, settings) ==
    IF op.kind = "function"
    THEN CASE op.fn = "return_settings" -> Ret(st, settings)
           [] op.fn = "return_context" -> Ret(st, ContextRef)
           [] op.fn = "return_one" -> Ret(st, 1)
    ELSE IF op.kind = "abstract" THEN Raise(st, "NotImplementedError", <<>>)
    ELSE IF op.kind = "object" THEN Raise(st, "TypeError", <<"not callable", op.cls>>)
    ELSE CASE op.cls = "Raw" -> Ret(st, st.docs[d].raw)
           [] op.cls = "CleanText" -> clean(st, d)
           [] op.cls = "NWords" -> nwords(st, d)
           [] op.cls = "Language" -> language(st, d)
           [] op.cls = "Sentiment" -> sentiment(st, d)
           [] op.cls = "Entities" -> entities_call(st, op, d)
           [] op.cls = "GensimDocumentEmbedding" -> gensim_call(st, op, d)

(* A step as passed to Pipeline(steps, ...): a bare name, a 1-tuple, or a  *)
(* (name, kwargs) tuple or list                                            *)
StepStr(name) == [form |-> "str", name |-> name, kwargs |-> <<>>]
Step1(name) == [form |-> "tuple1", name |-> name, kwargs |-> <<>>]
Step2(name, kw) == [form |-> "tuple2", name |-> name, kwargs |-> kw]
StepList(name, kw) == [form |-> "list2", name |-> name, kwargs |-> kw]

(* a loop over steps that puts each step in front of the earlier ones      *)
RECURSIVE init_steps_reversed(_, _, _)
init_steps_reversed(self, steps_in, k) ==
    IF k > Len(steps_in) THEN [exc |-> NoExc, self |-> self]
    ELSE LET oper == steps_in[k]
             oper_name == oper.name
             oper_kwargs == IF oper.form \in {"str", "tuple1"} THEN <<>> ELSE oper.kwargs
             self1 == [self EXCEPT !.steps = <<<<oper_name, oper_kwargs>>>> \o @]
             made == new_operation(oper_name, oper_kwargs)
         IN  IF made.exc.kind # None THEN [exc |-> made.exc, self |-> self1]
             ELSE init_steps_reversed(
                      [self1 EXCEPT !.operations = DictSet(@, oper_name, made.op)],
                      steps_in, k + 1)

(* the loop over steps of Pipeline.__init__: at step k of steps_in, with   *)
(* the object built so far                                                 *)
RECURSIVE init_steps(_, _, _)
init_steps(self, steps_in, k) ==
    IF k > Len(steps_in) THEN [exc |-> NoExc, self |-> self]
    ELSE LET oper == steps_in[k]
             oper_name == oper.name
             oper_kwargs == IF oper.form \in {"str", "tuple1"} THEN <<>> ELSE oper.kwargs
             self1 == [self EXCEPT !.steps = Append(@, <<oper_name, oper_kwargs>>)]
             made == new_operation(oper_name, oper_kwargs)
         IN  IF made.exc.kind # None THEN [exc |-> made.exc, self |-> self1]
             ELSE init_steps([self1 EXCEPT !.operations = DictSet(@, oper_name, made.op)],
                             steps_in, k + 1)

(* a loop over models that starts a new dict of the language for every     *)
(* model                                                                   *)
RECURSIVE load_models_fresh_dict(_, _, _)
load_models_fresh_dict(reg, models, k) ==
    IF k > Len(models) THEN reg
    ELSE LET model_name == models[k][1]
             lang == models[k][2]
             reg1 == DictSet(reg, lang, EmptyDict)
         IN  load_models_fresh_dict(
                 [reg1 EXCEPT ![lang] = DictSet(@, model_name, <<"custom", models[k][3]>>)],
                 models, k + 1)

(* the loop over models of Pipeline.__init__                               *)
RECURSIVE load_models(_, _, _)
load_models(reg, models, k) ==
    IF k > Len(models) THEN reg
    ELSE LET model_name == models[k][1]
             lang == models[k][2]
             reg1 == IF lang \notin DOMAIN reg THEN DictSet(reg, lang, EmptyDict) ELSE reg
         IN  load_models([reg1 EXCEPT ![lang] = DictSet(@, model_name, <<"custom", models[k][3]>>)],
                         models, k + 1)

(* the calls of spacy.load(model_path) the loop over models makes           *)
RECURSIVE count_model_loads(_, _, _)
count_model_loads(loads, models, k) ==
    IF k > Len(models) THEN loads
    ELSE count_model_loads(Bump(loads, <<"custom", models[k][3]>>), models, k + 1)

(* Pipeline.__init__ with steps, language=None, hint_language=None,        *)
(* models=None and the extra keyword arguments                             *)
pipeline_init(st, steps_in, lang, hint, models, kwargs) ==
    LET self0 == [language |-> lang, hint_language |-> hint, kwargs |-> kwargs,
                  operations |-> EmptyDict, steps |-> <<>>,
                  nlps |-> Len(st.registries) + 1]
        reg == load_models(EmptyDict, models, 1)
    IN  With(init_steps(self0, steps_in, 1), LAMBDA built :
            IF built.exc.kind # None THEN R(st, None, built.exc)
            ELSE Ret([st EXCEPT !.registries = Append(@, reg),
                                !.stats.spacy_load = count_model_loads(@, models, 1)],
                     built.self))

-----------------------------------------------------------------------------
(* The state after construction: no Doc, no Pipeline, empty caches         *)

EmptyLru == [clean_text |-> <<>>, detect_language |-> <<>>,
             load_spacy_doc |-> <<>>, find_ents |-> <<>>,
             get_default_nlp |-> <<>>, extract_keyterms |-> <<>>,
             generate_gensim_document_embedding |-> <<>>]

EmptyStats == [get_text |-> <<>>, cld2 |-> <<>>, cld2_prop |-> <<>>,
               nlp |-> <<>>, spacy_load |-> <<>>]

Members == {"language", "is_reliable_language", "detect_language", "clean",
            "clean_text", "nwords", "ents", "find_ents", "sentiment",
            "nsents", "complexity", "extract_keyterms",
            "generate_gensim_document_embedding"}

NothingSeen == [returned |-> [m \in Members |-> {}], raised |-> {}]

EmptyHeap == [docs |-> <<>>, registries |-> <<>>, lru |-> EmptyLru,
              stats |-> EmptyStats, handed |-> <<>>, gensim |-> EmptyGensim]

Init ==
    /\ docs = <<>>
    /\ registries = <<>>
    /\ lru = EmptyLru
    /\ stats = EmptyStats
    /\ handed = <<>>
    /\ seen = NothingSeen
    /\ pipes = <<>>
    /\ calls = <<>>
    /\ files = <<>>
    /\ gensim = EmptyGensim

(* the heap after a call on a Doc, and the record of the call: what each   *)
(* member returned, by member, and what was raised                         *)
Observe(sn, op, d, call, r) ==
    IF Raised(r)
    THEN [sn EXCEPT !.raised = @ \cup {[op |-> op, doc |-> d, call |-> call,
                                        exc |-> r.exc]}]
    ELSE [sn EXCEPT !.returned[op] = @ \cup {[doc |-> d, call |-> call,
                                              val |-> r.val]}]

Commit(op, d, call, r) ==
    /\ docs' = r.st.docs
    /\ registries' = r.st.registries
    /\ lru' = r.st.lru
    /\ stats' = r.st.stats
    /\ handed' = r.st.handed
    /\ gensim' = r.st.gensim
    /\ seen' = Observe(seen, op, d, call, r)

DocIds == 1..Len(docs)

(* Doc.__init__(raw, language=None, hint_language='en', spacy_nlps=None,   *)
(* gensim_vectors=None); gensim_vectors 0 is a dict of the Doc's own       *)
NewDocObject(raw, lang, hint, ri) ==
    [raw |-> raw, language |-> lang, hint_language |-> hint,
     nlps |-> ri,
     is_detected_language |-> Bool(lang = None),
     is_reliable |-> IF Truthy(lang) THEN True ELSE None,
     text_stats |-> EmptyDict,
     gensim_vectors |-> 0,
     nr_train_tokens |-> 0]

(* the spacy_nlps a caller of Doc(...) passes: none (a fresh dict), or the *)
(* dict of tests/test_doc.py                                               *)
NoNlps == {EmptyDict}
CustomNlps == {EmptyDict, ("nl" :> ("ents" :> <<"custom", "path_nl">>))}

NewDoc(maxDocs, raws, langs, hints, nlps) ==
    /\ Len(docs) < maxDocs
    /\ \E raw \in raws, lang \in langs, hint \in hints, nl \in nlps :
          /\ registries' = Append(registries, nl)
          /\ docs' = Append(docs, NewDocObject(raw, lang, hint, Len(registries) + 1))
    /\ UNCHANGED <<lru, stats, handed, seen, pipes, calls, files, gensim>>

(* doc.hint_language = hint (a public attribute)                           *)
SetHintLanguage ==
    /\ \E d \in DocIds, hint \in {"en", "nl"} :
          /\ docs[d].hint_language # hint
          /\ docs' = [docs EXCEPT ![d].hint_language = hint]
    /\ UNCHANGED <<registries, lru, stats, handed, seen, pipes, calls, files, gensim>>

ReadLanguage ==
    /\ \E d \in DocIds : \E r \in {language(Heap, d)} : Commit("language", d, NoArgs, r)
    /\ UNCHANGED <<pipes, calls, files>>

ReadIsReliableLanguage ==
    /\ \E d \in DocIds :
          \E r \in {is_reliable_language(Heap, d)} : Commit("is_reliable_language", d, NoArgs, r)
    /\ UNCHANGED <<pipes, calls, files>>

DetectCalls == {Call(<<"nl">>, <<>>)}

DetectLanguage ==
    /\ \E d \in DocIds, c \in DetectCalls :
          \E r \in {detect_language(Heap, d, c)} : Commit("detect_language", d, c, r)
    /\ UNCHANGED <<pipes, calls, files>>

ReadClean(ds) ==
    /\ \E d \in ds \cap DocIds : \E r \in {clean(Heap, d)} : Commit("clean", d, NoArgs, r)
    /\ UNCHANGED <<pipes, calls, files>>

(* Doc(raw).clean: a Doc that is created, cleaned and not used again       *)
CleanNewDoc(maxDocs, raws) ==
    /\ Len(docs) < maxDocs
    /\ \E raw \in raws :
          LET d == Len(docs) + 1
              st == [Heap EXCEPT
                        !.registries = Append(@, EmptyDict),
                        !.docs = Append(@, NewDocObject(raw, None, "en",
                                                        Len(registries) + 1))]
          IN  \E r \in {clean(st, d)} : Commit("clean", d, NoArgs, r)
    /\ UNCHANGED <<pipes, calls, files>>

CleanCalls == {Call(<<True, True, True, True>>, <<>>),
               Call(<<False, False, False, False>>, <<>>),
               Call(<<>>, <<<<"remove_html", True>>>>)}

CleanText ==
    /\ \E d \in DocIds, c \in CleanCalls :
          \E r \in {clean_text(Heap, d, c)} : Commit("clean_text", d, c, r)
    /\ UNCHANGED <<pipes, calls, files>>

ReadNWords ==
    /\ \E d \in DocIds : \E r \in {nwords(Heap, d)} : Commit("nwords", d, NoArgs, r)
    /\ UNCHANGED <<pipes, calls, files>>

ReadEnts ==
    /\ \E d \in DocIds : \E r \in {ents(Heap, d)} : Commit("ents", d, NoArgs, r)
    /\ UNCHANGED <<pipes, calls, files>>

FindEntsCalls == {Call(<<None>>, <<>>), Call(<<"ents">>, <<>>)}

FindEnts ==
    /\ \E d \in DocIds, c \in FindEntsCalls :
          \E r \in {find_ents(Heap, d, c)} : Commit("find_ents", d, c, r)
    /\ UNCHANGED <<pipes, calls, files>>

ReadSentiment ==
    /\ \E d \in DocIds : \E r \in {sentiment(Heap, d)} : Commit("sentiment", d, NoArgs, r)
    /\ UNCHANGED <<pipes, calls, files>>

ReadNSents ==
    /\ \E d \in DocIds : \E r \in {nsents(Heap, d)} : Commit("nsents", d, NoArgs, r)
    /\ UNCHANGED <<pipes, calls, files>>

ReadComplexity ==
    /\ \E d \in DocIds :
          \E r \in {complexity(Heap, d)} : Commit("complexity", d, NoArgs, r)
    /\ UNCHANGED <<pipes, calls, files>>

(* the calls of tests/test_doc.py and of the docstring, and a ranker that  *)
(* is not offered                                                          *)
KeytermCalls == {NoArgs,
                 Call(<<>>, <<<<"ranker", "sgrank">>>>),
                 Call(<<>>, <<<<"ranker", "singlerank">>>>),
                 Call(<<"bogus", "3">>, <<>>),
                 Call(<<>>, <<<<"ranker", "bogus">>, <<"ngrams", "1">>>>)}

ExtractKeyterms ==
    /\ \E d \in DocIds, c \in KeytermCalls :
          \E r \in {extract_keyterms(Heap, d, c)} :
             Commit("extract_keyterms", d, c, r)
    /\ UNCHANGED <<pipes, calls, files>>

(* the calls of generate_gensim_document_embedding made on a Doc           *)
EmbeddingCalls == {Call(<<>>, <<<<"model_uri", KV_NL>>>>),
                   Call(<<>>, <<<<"model_uri", KV_OTHER>>>>),
                   Call(<<>>, <<<<"model_uri", KV_ABSENT>>>>),
                   Call(<<>>, <<<<"model_uri", REDIS_URI>>>>),
                   Call(<<>>, <<<<"model_uri", REDIS_URI>>, <<"idf_weighting", "log">>>>)}

GenerateEmbedding ==
    /\ \E d \in DocIds, c \in EmbeddingCalls :
          \E r \in {generate_gensim_document_embedding(Heap, d, c)} :
             Commit("generate_gensim_document_embedding", d, c, r)
    /\ UNCHANGED <<pipes, calls, files>>

(* RedisKeyedVectors(uri, key).load_keyed_vectors_into_redis(model_path,   *)
(* idf_weighting): every word of the model is stored under the key,        *)
(* divided by its idf                                                      *)
LoadIntoRedis ==
    /\ \E key \in {"nl"}, model_path \in {KV_NL}, idf_weighting \in {"naive", "log"} :
          LET m == RedisKeyedVectors(REDIS_URI, key, "naive")
              entry == [path |-> model_path, idf_weighting |-> idf_weighting]
          IN  /\ ~(redis_exists(Heap, m) /\ gensim.redis[m.key] = entry)
              /\ gensim' = [gensim EXCEPT !.redis = DictSet(@, m.key, entry)]
    /\ UNCHANGED <<docs, registries, lru, stats, handed, seen, pipes, calls, files>>

-----------------------------------------------------------------------------
(* Pipelines: construction, registration, calls, save and load             *)

(* pipes holds every construction, in order; the Pipelines that exist are  *)
(* those whose constructor returned                                        *)
PipeIds == {p \in 1..Len(pipes) : pipes[p].exc.kind = None}
CallIds == 1..Len(calls)

(* no Pipeline call is in progress: a single-threaded caller               *)
Idle == \A c \in CallIds : calls[c].status # "running"

StepNames(steps_in) == [k \in 1..Len(steps_in) |-> steps_in[k].name]

(* all lists of at most n steps over the given step forms                  *)
StepLists(forms, n) == UNION {[1..k -> forms] : k \in 0..n}

(* the heap after a constructor or a step, without a call on a Doc         *)
CommitHeap(st) ==
    /\ docs' = st.docs
    /\ registries' = st.registries
    /\ lru' = st.lru
    /\ stats' = st.stats
    /\ handed' = st.handed
    /\ gensim' = st.gensim

(* the outcome of a constructor call: the object or the exception, with    *)
(* the steps and the models it was given, the model registry as the        *)
(* constructor left it and the file it was loaded from (0: none)           *)
Constructed(r, steps_in, models, f) ==
    [pipe |-> r.val, exc |-> r.exc, given |-> StepNames(steps_in),
     declared |-> steps_in,
     built_nlps |-> IF Raised(r) THEN None ELSE r.st.registries[r.val.nlps],
     models |-> models,
     loaded_from |-> f]

(* Pipeline(steps, language=..., hint_language=..., models=...) with extra *)
(* keyword arguments                                                       *)
Construct(maxPipes, stepLists, langs, hints, modelss, kwargss) ==
    /\ Len(pipes) < maxPipes
    /\ Idle
    /\ \E steps_in \in stepLists, lang \in langs, hint \in hints,
          models \in modelss, kwargs \in kwargss :
          \E r \in {pipeline_init(Heap, steps_in, lang, hint, models, kwargs)} :
             /\ pipes' = Append(pipes, Constructed(r, steps_in, models, 0))
             /\ CommitHeap(r.st)
    /\ UNCHANGED <<seen, calls, files>>

(* pipe.register_operation(op_name, target_fn)                             *)
RegisterOperation(registrations) ==
    /\ Idle
    /\ \E p \in PipeIds, reg \in registrations :
          LET op_name == reg[1]
              target_fn == reg[2]
              op == [kind |-> "function", fn |-> target_fn]
          IN  /\ ~(op_name \in DOMAIN pipes[p].pipe.operations
                   /\ pipes[p].pipe.operations[op_name].kind = "function"
                   /\ pipes[p].pipe.operations[op_name].fn = target_fn)
              /\ pipes' = [pipes EXCEPT ![p].pipe.operations = DictSet(@, op_name, op)]
    /\ UNCHANGED <<docs, registries, lru, stats, handed, seen, calls, files, gensim>>

(* pipe.steps.append((name, settings)): steps is a public list             *)
AppendStep(steps_more) ==
    /\ Idle
    /\ \E p \in PipeIds, step \in steps_more :
          /\ Len(pipes[p].pipe.steps) < MaxSteps
          /\ pipes' = [pipes EXCEPT ![p].pipe.steps = Append(@, step)]
    /\ UNCHANGED <<docs, registries, lru, stats, handed, seen, calls, files, gensim>>

(* pipe.language = lang: language is a public attribute                    *)
SetPipeLanguage(langs) ==
    /\ Idle
    /\ \E p \in PipeIds, lang \in langs :
          /\ pipes[p].pipe.language # lang
          /\ pipes' = [pipes EXCEPT ![p].pipe.language = lang]
    /\ UNCHANGED <<docs, registries, lru, stats, handed, seen, calls, files, gensim>>

(* Pipeline.__call__ up to the loop: the Doc and the empty context.  A     *)
(* pipeline without steps returns at once.                                 *)
CallStartUpTo(maxCalls, raws) ==
    /\ Len(calls) < maxCalls
    /\ Idle
    /\ \E p \in PipeIds, raw \in raws :
          LET self == pipes[p].pipe
              doc == [NewDocObject(raw, self.language, self.hint_language, self.nlps)
                         EXCEPT !.gensim_vectors = p]
          IN  /\ docs' = Append(docs, doc)
              /\ calls' = Append(calls,
                     [pipe |-> p, doc |-> Len(docs) + 1, i |-> 1,
                      data |-> EmptyDict, trace |-> <<>>,
                      status |-> IF self.steps = <<>> THEN "returned" ELSE "running",
                      exc |-> NoExc])
    /\ UNCHANGED <<registries, lru, stats, handed, seen, pipes, files, gensim>>

CallStart(raws) == CallStartUpTo(MaxCalls, raws)

(* a context that keeps the first result stored under a name               *)
store_result_first(data, oper, val) ==
    IF oper \in DOMAIN data THEN data ELSE DictSet(data, oper, val)

(* a context that keeps the result of the last step only                   *)
store_result_last_only(data, oper, val) == DictSet(EmptyDict, oper, val)

(* a context in which the result of a step is not stored                   *)
store_result_discarded(data, oper, val) == data

(* data[oper] = the value the operation returned                           *)
store_result(data, oper, val) == DictSet(data, oper, val)

(* a loop that catches the exception of a step, stores None for it and     *)
(* goes on with the next step                                              *)
CallStepSwallowing ==
    \E c \in CallIds :
       /\ calls[c].status = "running"
       /\ LET a == calls[c]
              self == pipes[a.pipe].pipe
              oper == self.steps[a.i][1]
              settings == self.steps[a.i][2]
          IN  \E r \in {IF oper \notin DOMAIN self.operations
                        THEN Raise(Heap, "KeyError", <<oper>>)
                        ELSE apply_operation(Heap, self.operations[oper], a.doc, settings)} :
                 /\ CommitHeap(r.st)
                 /\ calls' = [calls EXCEPT
                            ![c].data = DictSet(@, oper, r.val),
                            ![c].trace = Append(@, [name |-> oper, context |-> a.data,
                                                    result |-> r.val]),
                            ![c].i = @ + 1,
                            ![c].status = IF a.i = Len(self.steps)
                                          THEN "returned" ELSE "running"]
       /\ UNCHANGED <<seen, pipes, files>>

(* one iteration of the loop of Pipeline.__call__, and the return after    *)
(* the last one; trace records what each step was given and what it gave   *)
CallStep ==
    \E c \in CallIds :
       /\ calls[c].status = "running"
       /\ LET a == calls[c]
              self == pipes[a.pipe].pipe
              oper == self.steps[a.i][1]
              settings == self.steps[a.i][2]
          IN  \E r \in {IF oper \notin DOMAIN self.operations
                        THEN Raise(Heap, "KeyError", <<oper>>)
                        ELSE apply_operation(Heap, self.operations[oper], a.doc, settings)} :
                 /\ CommitHeap(r.st)
                 /\ IF Raised(r)
                    THEN calls' = [calls EXCEPT ![c].status = "raised", ![c].exc = r.exc]
                    ELSE calls' = [calls EXCEPT
                            ![c].data = store_result(@, oper, r.val),
                            ![c].trace = Append(@, [name |-> oper, context |-> a.data,
                                                    result |-> r.val]),
                            ![c].i = @ + 1,
                            ![c].status = IF a.i = Len(self.steps)
                                          THEN "returned" ELSE "running"]
       /\ UNCHANGED <<seen, pipes, files>>

(* json.dump / json.load of a value: a tuple comes back as a list          *)
json_value(item) == <<item[1], IF item[2] = "tuple" THEN "list" ELSE item[2], item[3]>>
json_dict(dict) == [j \in 1..Len(dict) |-> json_value(dict[j])]

(* a step (name, kwargs) comes back as the list [name, kwargs]             *)
json_steps(steps) == [k \in 1..Len(steps) |-> StepList(steps[k][1], json_dict(steps[k][2]))]

(* pipe.save(filename): all public attributes as JSON; saved keeps the     *)
(* attributes as they were when written                                    *)
Save ==
    /\ Len(files) < MaxFiles
    /\ Idle
    /\ \E p \in PipeIds :
          LET self == pipes[p].pipe
          IN  files' = Append(files,
                  [json |-> [language |-> self.language,
                             hint_language |-> self.hint_language,
                             kwargs |-> json_dict(self.kwargs),
                             steps |-> json_steps(self.steps)],
                   saved |-> [language |-> self.language,
                              hint_language |-> self.hint_language,
                              kwargs |-> self.kwargs,
                              steps |-> self.steps,
                              operations |-> self.operations],
                   loads |-> 0])
    /\ UNCHANGED <<docs, registries, lru, stats, handed, seen, pipes, calls, gensim>>

(* Pipeline.load(filename) and Pipeline.from_dict: the extra keyword       *)
(* arguments of the file are passed on as keyword arguments                *)
Load ==
    /\ Idle
    /\ \E f \in 1..Len(files) :
          /\ files[f].loads = 0
          /\ files' = [files EXCEPT ![f].loads = 1]
          /\ \E r \in {pipeline_init(Heap, files[f].json.steps, files[f].json.language,
                                      files[f].json.hint_language, <<>>,
                                      files[f].json.kwargs)} :
                /\ pipes' = Append(pipes, Constructed(r, files[f].json.steps, <<>>, f))
                /\ CommitHeap(r.st)
    /\ UNCHANGED <<seen, calls>>

-----------------------------------------------------------------------------
(* Specifications                                                          *)

(* Spec: the annotation-backed and language-dependent members of directly  *)
(* constructed Docs                                                        *)
Next ==
    \/ NewDoc(MaxDocs, Texts, {None}, {"en", "nl"}, CustomNlps)
    \/ ReadNWords
    \/ ReadEnts
    \/ FindEnts
    \/ ReadSentiment

Spec == Init /\ [][Next]_vars

(* SpecClean: cleaning of directly constructed Docs                        *)
NextClean ==
    \/ NewDoc(MaxDocs, Texts \cup {RAW_NONE, TEXT_ELLIPSIS}, {None}, {"en"}, NoNlps)
    \/ ReadClean(DocIds)
    \/ CleanText

SpecClean == Init /\ [][NextClean]_vars

(* SpecLang: language resolution of directly constructed Docs              *)
NextLang ==
    \/ NewDoc(MaxDocs, {TEXT_DOTS, TEXT_TEST, TEXT_HTML}, {None, "en"}, {"en", "nl"}, NoNlps)
    \/ SetHintLanguage
    \/ ReadLanguage
    \/ ReadIsReliableLanguage
    \/ DetectLanguage

SpecLang == Init /\ [][NextLang]_vars

(* SpecLru: one Doc that stays in use while other Docs are created,        *)
(* cleaned once and dropped                                                *)
NextLru ==
    \/ CleanNewDoc(MaxLruDocs, {TEXT_HTML})
    \/ ReadClean({1})

SpecLru == Init /\ [][NextLru]_vars

(* keyword arguments of steps and of pipelines, from the tests and the     *)
(* docstrings                                                              *)
NoKwargs == <<>>
SomeArg == <<<<"some", "str", <<"arg">>>>>>
OtherArgs == <<<<"other", "str", <<"args">>>>>>
Argument1 == <<<<"argument", "int", <<"1">>>>>>
Argument2 == <<<<"argument", "int", <<"2">>>>>>
TextAttribute == <<<<"ent_attributes", "tuple", <<"text">>>>>>
TestMapping == <<<<"model_mapping", "dict", <<"nl", "ents", "en", "other_identifier">>>>>>

(* the models of tests/test_pipeline.py: (model_name, lang, model_path)    *)
TestModels == <<<<"ents", "nl", "path_nl">>, <<"other_identifier", "en", "path_en">>>>

(* two custom models of one language                                       *)
DutchModels == <<<<"ents", "nl", "path_nl">>, <<"other", "nl", "path_nl2">>>>

(* SpecPipe: construction of Pipelines from step names, and calls          *)
PipeForms == {StepStr("NWords"), Step1("Raw"), Step2("Entities", TestMapping),
              StepStr("CUSTOM_STEP"), StepStr("Operation"),
              StepStr("TextpipeMissingModelException")}

NextPipe ==
    \/ Construct(MaxPipes, StepLists(PipeForms, MaxSteps), {None}, {None, "en"},
                 {<<>>, TestModels}, {NoKwargs})
    \/ CallStart({TEXT_EMPTY, TEXT_TEST})
    \/ CallStep

SpecPipe == Init /\ [][NextPipe]_vars

(* SpecCall: the calls of one Pipeline, constructed from operation names    *)
(* and extended with registered functions                                  *)
CallForms == {StepStr("Raw"), Step1("NWords")}
Registrations == {<<"CUSTOM_STEP", "return_settings">>,
                  <<"CUSTOM_STEP2", "return_context">>,
                  <<"Raw", "return_one">>}
CustomSteps == {<<"CUSTOM_STEP", Argument1>>, <<"CUSTOM_STEP", Argument2>>,
                <<"CUSTOM_STEP2", Argument1>>}

InitCall ==
    /\ \E steps_in \in StepLists(CallForms, MaxSteps) :
          \E r \in {pipeline_init(EmptyHeap, steps_in, None, "en", <<>>, NoKwargs)} :
             /\ pipes = <<Constructed(r, steps_in, <<>>, 0)>>
             /\ registries = r.st.registries
    /\ docs = <<>>
    /\ lru = EmptyLru
    /\ stats = EmptyStats
    /\ handed = <<>>
    /\ seen = NothingSeen
    /\ calls = <<>>
    /\ files = <<>>
    /\ gensim = EmptyGensim

NextCall ==
    \/ RegisterOperation(Registrations)
    \/ AppendStep(CustomSteps)
    \/ CallStart({TEXT_TEST})
    \/ CallStep

SpecCall == InitCall /\ [][NextCall]_vars

(* SpecSave: Pipelines written to a file and read back                     *)
SaveForms == {StepStr("Raw"), Step2("CleanText", SomeArg),
              Step2("Entities", TextAttribute)}

NextSave ==
    \/ Construct(MaxPipes, StepLists(SaveForms, MaxSteps), {None}, {None, "en"},
                 {<<>>}, {NoKwargs, OtherArgs})
    \/ RegisterOperation({<<"CUSTOM_STEP", "return_settings">>})
    \/ AppendStep({<<"CUSTOM_STEP", Argument1>>})
    \/ SetPipeLanguage({"it"})
    \/ Save
    \/ Load

SpecSave == Init /\ [][NextSave]_vars

-----------------------------------------------------------------------------
(* Concurrent calls of one Pipeline: each thread runs Pipeline.__call__    *)
(* with a Doc of its own; the statements of Doc._load_spacy_doc that read  *)
(* or write the shared registry are the atomic steps                       *)

ThreadsAt(pc) == {c \in CallIds : calls[c].status = "running" /\ calls[c].pc = pc}

Registry(c) == registries[docs[calls[c].doc].nlps]

(* a thread leaves the call with an exception                              *)
ThreadRaises(c, exc) ==
    calls' = [calls EXCEPT ![c].status = "raised", ![c].exc = exc, ![c].pc = "done"]

(* a thread enters Pipeline.__call__: the Doc and the empty context        *)
ThreadStart(raws) ==
    /\ Len(calls) < MaxThreads
    /\ \E p \in PipeIds, raw \in raws :
          LET self == pipes[p].pipe
              doc == [NewDocObject(raw, self.language, self.hint_language, self.nlps)
                         EXCEPT !.gensim_vectors = p]
          IN  /\ docs' = Append(docs, doc)
              /\ calls' = Append(calls,
                     [pipe |-> p, doc |-> Len(docs) + 1, i |-> 1,
                      data |-> EmptyDict, trace |-> <<>>,
                      status |-> IF self.steps = <<>> THEN "returned" ELSE "running",
                      exc |-> NoExc, pc |-> "resolve", lang |-> None,
                      model_name |-> None, nlp |-> None])
    /\ UNCHANGED <<registries, lru, stats, handed, seen, pipes, files, gensim>>

(* the step up to the call of _load_spacy_doc(lang, model_name): the       *)
(* effective language of the Doc and, for Entities, the mapped model; the  *)
(* Doc is new, so the lru_cache lookups of the call miss                   *)
ThreadResolve ==
    \E c \in ThreadsAt("resolve") :
       LET a == calls[c]
           self == pipes[a.pipe].pipe
           op == self.operations[self.steps[a.i][1]]
           resolved ==
               IF op.cls = "Entities"
               THEN With(get_model(Heap, op, a.doc), LAMBDA m :
                       IF Raised(m) THEN m
                       ELSE With(effective_language(m.st, a.doc), LAMBDA l :
                               IF Raised(l) THEN l ELSE Ret(l.st, <<l.val, m.val>>)))
               ELSE With(effective_language(Heap, a.doc), LAMBDA l :
                       IF Raised(l) THEN l ELSE Ret(l.st, <<l.val, None>>))
       IN  \E r \in {resolved} :
              /\ CommitHeap(r.st)
              /\ IF Raised(r) THEN ThreadRaises(c, r.exc)
                 ELSE calls' = [calls EXCEPT ![c].pc = "L156", ![c].lang = r.val[1],
                                             ![c].model_name = r.val[2]]
              /\ UNCHANGED <<seen, pipes, files>>

(* if lang not in self._spacy_nlps or (model_name is None and              *)
(*                                     model_name not in self._spacy_nlps[lang]): *)
load_spacy_doc_L156 ==
    \E c \in ThreadsAt("L156") :
       LET a == calls[c]
           reg == Registry(c)
           need_default == \/ a.lang \notin DOMAIN reg
                           \/ (a.model_name = None /\ None \notin DOMAIN reg[a.lang])
       IN  /\ calls' = [calls EXCEPT ![c].pc = IF need_default THEN "L158" ELSE "L161"]
           /\ UNCHANGED <<docs, registries, lru, stats, handed, seen, pipes, files, gensim>>

(* if lang not in self._spacy_nlps:                                         *)
load_spacy_doc_L158 ==
    \E c \in ThreadsAt("L158") :
       /\ calls' = [calls EXCEPT ![c].pc = IF calls[c].lang \notin DOMAIN Registry(c)
                                           THEN "L159" ELSE "L160"]
       /\ UNCHANGED <<docs, registries, lru, stats, handed, seen, pipes, files, gensim>>

(* self._spacy_nlps[lang] = {}                                              *)
load_spacy_doc_L159 ==
    \E c \in ThreadsAt("L159") :
       /\ registries' = [registries EXCEPT ![docs[calls[c].doc].nlps] =
                             DictSet(@, calls[c].lang, EmptyDict)]
       /\ calls' = [calls EXCEPT ![c].pc = "L160"]
       /\ UNCHANGED <<docs, lru, stats, handed, seen, pipes, files, gensim>>

(* self._spacy_nlps[lang][None] = self._get_default_nlp(lang)               *)
load_spacy_doc_L160 ==
    \E c \in ThreadsAt("L160") :
       \E g \in {get_default_nlp(Heap, calls[c].lang)} :
          /\ docs' = g.st.docs
          /\ lru' = g.st.lru
          /\ stats' = g.st.stats
          /\ handed' = g.st.handed
          /\ gensim' = g.st.gensim
          /\ IF Raised(g)
             THEN /\ ThreadRaises(c, g.exc)
                  /\ UNCHANGED registries
             ELSE /\ registries' = [registries EXCEPT
                         ![docs[calls[c].doc].nlps][calls[c].lang] = DictSet(@, None, g.val)]
                  /\ calls' = [calls EXCEPT ![c].pc = "L161"]
          /\ UNCHANGED <<seen, pipes, files>>

(* if model_name not in self._spacy_nlps[lang] and model_name is not None:  *)
(*     raise TextpipeMissingModelException                                 *)
load_spacy_doc_L161 ==
    \E c \in ThreadsAt("L161") :
       LET a == calls[c]
       IN  /\ IF a.model_name \notin DOMAIN Registry(c)[a.lang] /\ a.model_name # None
              THEN ThreadRaises(c, Exc(MissingModel, <<"custom", a.model_name>>))
              ELSE calls' = [calls EXCEPT ![c].pc = "L164"]
           /\ UNCHANGED <<docs, registries, lru, stats, handed, seen, pipes, files, gensim>>

(* nlp = self._spacy_nlps[lang][model_name]: a dict lookup, KeyError when   *)
(* the key is not there                                                    *)
load_spacy_doc_L164 ==
    \E c \in ThreadsAt("L164") :
       LET a == calls[c]
       IN  /\ IF a.model_name \notin DOMAIN Registry(c)[a.lang]
              THEN ThreadRaises(c, Exc("KeyError", <<a.model_name>>))
              ELSE calls' = [calls EXCEPT ![c].pc = "L165",
                                          ![c].nlp = Registry(c)[a.lang][a.model_name]]
           /\ UNCHANGED <<docs, registries, lru, stats, handed, seen, pipes, files, gensim>>

(* doc = nlp(self.clean_text()); return doc, and the rest of the step: the *)
(* annotation is cached, the member computes its value from it, and        *)
(* Pipeline.__call__ stores the value and goes on to the next step         *)
load_spacy_doc_L165 ==
    \E c \in ThreadsAt("L165") :
       LET a == calls[c]
           self == pipes[a.pipe].pipe
           oper == self.steps[a.i][1]
           op == self.operations[oper]
           k == <<a.doc, a.lang, a.model_name>>
           load_call == IF op.cls = "Entities" THEN Call(<<a.lang, a.model_name>>, <<>>)
                        ELSE Call(<<a.lang>>, <<>>)
           ents_call == Call(<<>>, <<<<"model_name", a.model_name>>,
                                     <<"ent_attributes", AttrsArg(EntAttributes(op))>>>>)
       IN  \E t \in {clean_text(Heap, a.doc, NoArgs)} :
              LET ann == [doc |-> a.doc, lang |-> a.lang, model |-> a.model_name,
                          nlp |-> a.nlp, text |-> t.val,
                          serial |-> Count(t.st.stats.nlp, k) + 1]
                  val == IF op.cls = "Entities"
                         THEN [ents_of |-> ann, attrs |-> AttrsArg(EntAttributes(op))]
                         ELSE tokens(t.val)
                  st1 == [t.st EXCEPT
                             !.stats.nlp = Bump(@, k),
                             !.lru["load_spacy_doc"] =
                                 LruInsert(@, make_key(a.doc, load_call), ann),
                             !.handed = (k :> ((IF k \in DOMAIN @ THEN @[k] ELSE {})
                                                  \cup {ann.serial})) @@ @]
                  st2 == IF op.cls = "Entities"
                         THEN [st1 EXCEPT !.lru["find_ents"] =
                                   LruInsert(@, make_key(a.doc, ents_call), val)]
                         ELSE st1
              IN  /\ CommitHeap(st2)
                  /\ calls' = [calls EXCEPT
                         ![c].data = store_result(@, oper, val),
                         ![c].trace = Append(@, [name |-> oper, context |-> a.data,
                                                 result |-> val]),
                         ![c].i = @ + 1,
                         ![c].pc = IF a.i = Len(self.steps) THEN "done" ELSE "resolve",
                         ![c].status = IF a.i = Len(self.steps)
                                       THEN "returned" ELSE "running"]
                  /\ UNCHANGED <<seen, pipes, files>>

(* SpecThreads: one Pipeline with one annotation-backed step, called from  *)
(* several threads                                                         *)
ThreadForms == {StepStr("NWords"), Step2("Entities", TestMapping)}

InitThreads ==
    /\ \E step \in ThreadForms, models \in {<<>>, TestModels} :
          \E r \in {pipeline_init(EmptyHeap, <<step>>, None, "en", models, NoKwargs)} :
             /\ pipes = <<Constructed(r, <<step>>, models, 0)>>
             /\ registries = r.st.registries
             /\ stats = r.st.stats
    /\ docs = <<>>
    /\ lru = EmptyLru
    /\ handed = <<>>
    /\ seen = NothingSeen
    /\ calls = <<>>
    /\ files = <<>>
    /\ gensim = EmptyGensim

NextThreads ==
    \/ ThreadStart({TEXT_EMPTY, TEXT_TEST})
    \/ ThreadResolve
    \/ load_spacy_doc_L156
    \/ load_spacy_doc_L158
    \/ load_spacy_doc_L159
    \/ load_spacy_doc_L160
    \/ load_spacy_doc_L161
    \/ load_spacy_doc_L164
    \/ load_spacy_doc_L165

SpecThreads == InitThreads /\ [][NextThreads]_vars

(* SpecSteps: one Pipeline constructed from steps in every declared form,  *)
(* some of which raise when called                                         *)
StepForms == {StepStr("NWords"), Step1("Raw"), Step2("Entities", TestMapping),
              StepStr("Entities"), StepStr("Operation")}

InitSteps ==
    /\ \E steps_in \in StepLists(StepForms, MaxSteps), hint \in {None, "en"} :
          \E r \in {pipeline_init(EmptyHeap, steps_in, None, hint, <<>>, NoKwargs)} :
             /\ pipes = <<Constructed(r, steps_in, <<>>, 0)>>
             /\ registries = r.st.registries
             /\ stats = r.st.stats
    /\ docs = <<>>
    /\ lru = EmptyLru
    /\ handed = <<>>
    /\ seen = NothingSeen
    /\ calls = <<>>
    /\ files = <<>>
    /\ gensim = EmptyGensim

NextSteps ==
    \/ CallStart({TEXT_EMPTY, TEXT_TEST})
    \/ CallStep

SpecSteps == InitSteps /\ [][NextSteps]_vars

(* SpecModels: one Pipeline constructed with custom models and called     *)
(* several times, one call after the other                                 *)
ModelForms == {StepStr("NWords"), Step2("Entities", TestMapping)}

InitModels ==
    /\ \E steps_in \in StepLists(ModelForms, MaxSteps), hint \in {"en", "nl"},
          models \in {<<>>, TestModels, DutchModels} :
          \E r \in {pipeline_init(EmptyHeap, steps_in, None, hint, models, NoKwargs)} :
             /\ pipes = <<Constructed(r, steps_in, models, 0)>>
             /\ registries = r.st.registries
             /\ stats = r.st.stats
    /\ docs = <<>>
    /\ lru = EmptyLru
    /\ handed = <<>>
    /\ seen = NothingSeen
    /\ calls = <<>>
    /\ files = <<>>
    /\ gensim = EmptyGensim

NextModels ==
    \/ CallStartUpTo(MaxModelCalls, {TEXT_EMPTY, TEXT_TEST})
    \/ CallStep

SpecModels == InitModels /\ [][NextModels]_vars

(* One Doc built directly, as tests/test_doc.py builds DOC_1..DOC_7, and   *)
(* read through its statistics and key terms.                              *)
InitStats ==
    /\ \E raw \in {TEXT_EMPTY, TEXT_DOTS, TEXT_TEST}, hint \in {"en", "nl"} :
          docs = <<NewDocObject(raw, None, hint, 1)>>
    /\ registries = <<EmptyDict>>
    /\ lru = EmptyLru
    /\ stats = EmptyStats
    /\ handed = <<>>
    /\ seen = NothingSeen
    /\ pipes = <<>>
    /\ calls = <<>>
    /\ files = <<>>
    /\ gensim = EmptyGensim

NextStats ==
    \/ ReadNWords
    \/ ReadNSents
    \/ ReadEnts
    \/ ReadComplexity
    \/ ExtractKeyterms

SpecStats == InitStats /\ [][NextStats]_vars

(* One Doc built directly, its document embeddings, and the Redis store.   *)
InitGensim ==
    /\ \E raw \in {TEXT_EMPTY, TEXT_TEST} :
          docs = <<NewDocObject(raw, None, "nl", 1)>>
    /\ registries = <<EmptyDict>>
    /\ lru = EmptyLru
    /\ stats = EmptyStats
    /\ handed = <<>>
    /\ seen = NothingSeen
    /\ pipes = <<>>
    /\ calls = <<>>
    /\ files = <<>>
    /\ gensim = EmptyGensim

NextGensim ==
    \/ LoadIntoRedis
    \/ GenerateEmbedding

SpecGensim == InitGensim /\ [][NextGensim]_vars

(* One Pipeline whose only step is GensimDocumentEmbedding, called more    *)
(* than once.                                                              *)
EmbeddingMapping(uri) == <<"model_mapping", "dict", <<"nl", uri>>>>

EmbeddingForms ==
    {<<EmbeddingMapping(uri)>> \o more :
        uri \in {KV_NL, KV_OTHER, KV_ABSENT, REDIS_URI},
        more \in {<<>>, <<<<"idf_weighting", "str", <<"log">>>>>>,
                  <<<<"lowercase", "bool", <<False>>>>>>}}

InitEmbed ==
    /\ \E kw \in EmbeddingForms, hint \in {"nl", "en"} :
          \E r \in {pipeline_init(EmptyHeap, <<Step2("GensimDocumentEmbedding", kw)>>,
                                   None, hint, <<>>, NoKwargs)} :
             /\ pipes = <<Constructed(r, <<Step2("GensimDocumentEmbedding", kw)>>, <<>>, 0)>>
             /\ registries = r.st.registries
             /\ stats = r.st.stats
    /\ docs = <<>>
    /\ lru = EmptyLru
    /\ handed = <<>>
    /\ seen = NothingSeen
    /\ calls = <<>>
    /\ files = <<>>
    /\ gensim = EmptyGensim

NextEmbed ==
    \/ CallStartUpTo(MaxEmbedCalls, {TEXT_EMPTY, TEXT_TEST})
    \/ CallStep

SpecEmbed == InitEmbed /\ [][NextEmbed]_vars

-----------------------------------------------------------------------------
(* Properties                                                              *)

(* the effective language of a Doc whose language has been resolved        *)
EffectiveNow(d) ==
    IF docs[d].is_reliable = True THEN docs[d].language ELSE docs[d].hint_language

(* C1: within one Doc the NLP model is run at most once for each pair of   *)
(* effective language and model id, and every access for that pair gets    *)
(* one and the same annotation object.                                     *)
C1_AnnotationOncePerModel ==
    /\ \A k \in DOMAIN stats.nlp : stats.nlp[k] <= 1
    /\ \A k \in DOMAIN handed : Cardinality(handed[k]) <= 1

(* the flags a recorded call of clean or clean_text stands for             *)
EffectiveFlags(x) == Bind(CleanParams, CleanDefaults, x.call)

CleanReturns == seen.returned["clean"] \cup seen.returned["clean_text"]

(* C2: calls of clean_text (and clean) on one Doc with the same effective  *)
(* flags, however the flags are passed, return the same value, and the     *)
(* HTML stripper runs at most once per Doc and flag combination.           *)
C2_CleanOncePerFlags ==
    /\ \A x \in CleanReturns, y \in CleanReturns :
          (x.doc = y.doc /\ EffectiveFlags(x) = EffectiveFlags(y)) => x.val = y.val
    /\ \A k \in DOMAIN stats.get_text : stats.get_text[k] <= 1

(* C3: a value memoized for a Doc stays cached as long as the Doc lives,   *)
(* whatever is called on other Docs: every call that has returned is still *)
(* in the cache and nothing was computed twice.                            *)
C3_CachedForLifetime ==
    /\ \A x \in seen.returned["clean"] :
          LruHas(lru["clean_text"], make_key(x.doc, x.call))
    /\ \A d \in DocIds : Count(stats.get_text, <<d, CleanDefaults>>) <= 1

(* C4: once language or is_reliable_language has been read on a Doc, a     *)
(* read in any later state returns the same values, whatever hint_language *)
(* was assigned and whatever detect_language was called with in between,   *)
(* and the two properties run the detector at most once per Doc.           *)
C4_LanguageStable ==
    /\ \A x \in seen.returned["language"] :
          /\ language(Heap, x.doc).val = x.val
          /\ docs[x.doc].is_reliable # None
    /\ \A x \in seen.returned["is_reliable_language"] :
          /\ is_reliable_language(Heap, x.doc).val = x.val
          /\ Truthy(docs[x.doc].language)
    /\ \A d \in DocIds :
          /\ Count(stats.cld2_prop, d) <= 1
          /\ Count(language(Heap, d).st.stats.cld2_prop, d) <= 1
          /\ Count(is_reliable_language(Heap, d).st.stats.cld2_prop, d) <= 1

(* C4 witness: a Doc whose language was detected as English and read, and  *)
(* whose hint was then set to Dutch and detect_language('nl') called, with *)
(* another result.                                                         *)
C4_Witness ==
    \E d \in DocIds :
       /\ docs[d].is_detected_language = True
       /\ docs[d].language = "en"
       /\ docs[d].hint_language = "nl"
       /\ \E x \in seen.returned["language"] : x.doc = d /\ x.val = "en"
       /\ \E x \in seen.returned["is_reliable_language"] : x.doc = d
       /\ \E x \in seen.returned["detect_language"] :
             x.doc = d /\ x.val = <<True, "nl">>

(* C5: every language-dependent member picks its resource by the effective *)
(* language: the annotations handed out and the sentiment lexicon used (or *)
(* reported missing) are those of the effective language.                  *)
C5_EffectiveLanguageSelects ==
    /\ \A k \in DOMAIN handed : k[2] = EffectiveNow(k[1])
    /\ \A x \in seen.returned["sentiment"] : x.val.lang = EffectiveNow(x.doc)
    /\ \A x \in seen.raised :
          (x.op = "sentiment" /\ x.exc.msg[1] = "sentiment")
              => x.exc.msg[2] = EffectiveNow(x.doc)

(* what the failing step of a call does on a Doc constructed directly from *)
(* the same text                                                           *)
DirectDoc(a) ==
    LET self == pipes[a.pipe].pipe
        st == [EmptyHeap EXCEPT
                  !.registries = <<EmptyDict>>,
                  !.docs = <<NewDocObject(docs[a.doc].raw, self.language, "en", 1)>>]
    IN  apply_operation(st, self.operations[self.steps[a.i][1]], 1, self.steps[a.i][2])

(* C6: the Docs of a Pipeline constructed without hint_language have the   *)
(* hint 'en', and a step of such a Pipeline raises a missing-model error   *)
(* only where the same member of a directly constructed Doc raises.        *)
C6_PipelineHintDefault ==
    \A c \in CallIds :
       pipes[calls[c].pipe].pipe.hint_language = None
          => /\ docs[calls[c].doc].hint_language = "en"
             /\ (calls[c].status = "raised" /\ calls[c].exc.kind = MissingModel)
                   => Raised(DirectDoc(calls[c]))

(* C7: a constructor call with a step name that is not an operation raises *)
(* AttributeError, and no call fails on a step that is not an operation.   *)
C7_ConstructRejectsNonOperations ==
    /\ \A p \in 1..Len(pipes) :
          (\E k \in 1..Len(pipes[p].given) : pipes[p].given[k] \notin OperationClasses)
              => pipes[p].exc.kind = "AttributeError"
    /\ \A c \in CallIds :
          calls[c].status = "raised"
              => calls[c].exc.kind \notin {"KeyError", "TypeError", "NotImplementedError"}

(* the steps before step i of a trace that have the name n, and the last   *)
(* of them                                                                 *)
StepsBefore(tr, i, n) == {j \in 1..(i - 1) : tr[j].name = n}
LatestBefore(tr, i, n) ==
    CHOOSE j \in StepsBefore(tr, i, n) : \A k \in StepsBefore(tr, i, n) : k <= j

(* the context made of the steps before step i: for each name the result   *)
(* of the latest step of that name                                         *)
ContextBefore(tr, i) ==
    [n \in {tr[j].name : j \in 1..(i - 1)} |-> tr[LatestBefore(tr, i, n)].result]

(* the steps of a call ran in the order of the Pipeline's steps            *)
RanInOrder(a) ==
    /\ Len(a.trace) <= Len(pipes[a.pipe].pipe.steps)
    /\ \A i \in 1..Len(a.trace) : a.trace[i].name = pipes[a.pipe].pipe.steps[i][1]

(* C8 as stated: the steps run in order, the context of step i holds the   *)
(* result of every step before it under that step's name and nothing       *)
(* else, and the mapping returned is the context after the last step.      *)
C8_ContextHasEveryEarlierResult ==
    \A c \in CallIds :
       LET a == calls[c]
       IN  /\ RanInOrder(a)
           /\ \A i \in 1..Len(a.trace) :
                 /\ DOMAIN a.trace[i].context = {a.trace[j].name : j \in 1..(i - 1)}
                 /\ \A j \in 1..(i - 1) :
                       a.trace[i].context[a.trace[j].name] = a.trace[j].result
           /\ a.status = "returned" => a.data = ContextBefore(a.trace, Len(a.trace) + 1)

(* C8, amended: the steps run in order, the context of step i holds, for   *)
(* each name among the steps before it, the result of the latest of them   *)
(* with that name and nothing else, and the mapping returned is the        *)
(* context after the last step.                                            *)
C8_ContextHasLatestEarlierResults ==
    \A c \in CallIds :
       LET a == calls[c]
       IN  /\ RanInOrder(a)
           /\ \A i \in 1..Len(a.trace) :
                 a.trace[i].context = ContextBefore(a.trace, i)
           /\ a.status = "returned" => a.data = ContextBefore(a.trace, Len(a.trace) + 1)

(* C8 witness: a call that returned after three steps, the first two of    *)
(* one name and with different results.                                    *)
C8_Witness ==
    \E c \in CallIds :
       /\ calls[c].status = "returned"
       /\ Len(calls[c].trace) = 3
       /\ calls[c].trace[1].name = calls[c].trace[2].name
       /\ calls[c].trace[1].result # calls[c].trace[2].result

(* C9 as stated: the mapping a call returns has as many entries as the     *)
(* Pipeline has steps, one per step under the step's name.                 *)
C9_OneEntryPerStep ==
    \A c \in CallIds :
       calls[c].status = "returned"
          => /\ Cardinality(DOMAIN calls[c].data) = Len(calls[c].trace)
             /\ DOMAIN calls[c].data = {calls[c].trace[i].name : i \in 1..Len(calls[c].trace)}

(* C9, amended: the mapping a call returns has one entry per distinct name *)
(* among the steps that ran; it has as many entries as steps exactly when  *)
(* no name repeats.                                                        *)
C9_OneEntryPerName ==
    \A c \in CallIds :
       LET a == calls[c]
           names == {a.trace[i].name : i \in 1..Len(a.trace)}
       IN  a.status = "returned"
              => /\ DOMAIN a.data = names
                 /\ Cardinality(DOMAIN a.data) = Cardinality(names)
                 /\ (Cardinality(DOMAIN a.data) = Len(a.trace)
                        <=> \A i \in 1..Len(a.trace), j \in 1..Len(a.trace) :
                               a.trace[i].name = a.trace[j].name => i = j)

(* C9 witness: a call that returned fewer entries than steps ran.          *)
C9_Witness ==
    \E c \in CallIds :
       /\ calls[c].status = "returned"
       /\ Len(calls[c].trace) >= 2
       /\ Cardinality(DOMAIN calls[c].data) < Len(calls[c].trace)

(* C10: loading the file a Pipeline was saved to succeeds and gives a      *)
(* Pipeline with equal steps, language, hint_language and extra keyword    *)
(* arguments, whose operations are resolved again from the step names.     *)
C10_LoadRestoresSaved ==
    \A p \in 1..Len(pipes) :
       pipes[p].loaded_from # 0
          => /\ pipes[p].exc.kind = None
             /\ LET was == files[pipes[p].loaded_from].saved
                    now == pipes[p].pipe
                IN  /\ now.steps = was.steps
                    /\ now.language = was.language
                    /\ now.hint_language = was.hint_language
                    /\ now.kwargs = was.kwargs
                    /\ DOMAIN now.operations = {was.steps[k][1] : k \in 1..Len(was.steps)}

(* C11: a Pipeline rebuilt by load from the file of a Pipeline whose steps  *)
(* name an operation registered with register_operation is constructed,    *)
(* and resolves that step to the registered callable.                      *)
C11_RegisteredResolvesAtConstruction ==
    \A p \in 1..Len(pipes) :
       pipes[p].loaded_from # 0
          => LET was == files[pipes[p].loaded_from].saved
             IN  \A k \in 1..Len(was.steps) :
                    LET n == was.steps[k][1]
                    IN  (n \in DOMAIN was.operations /\ was.operations[n].kind = "function")
                           => /\ pipes[p].exc.kind = None
                              /\ n \in DOMAIN pipes[p].pipe.operations
                              /\ pipes[p].pipe.operations[n] = was.operations[n]

(* what a registered function returns when called with a context and       *)
(* settings                                                                *)
FunctionReturns(fn, context, settings) ==
    CASE fn = "return_settings" -> settings
      [] fn = "return_context" -> ContextRef
      [] fn = "return_one" -> 1

(* a step of a call whose operation is a registered function is invoked    *)
(* with the context accumulated so far and the settings of the step, and   *)
(* its return value is stored under the name of the step                   *)
RegisteredStepRuns ==
    \A c \in CallIds :
       (calls[c].status = "running" /\ calls'[c] # calls[c])
          => LET a == calls[c]
                 self == pipes[a.pipe].pipe
                 name == self.steps[a.i][1]
                 settings == self.steps[a.i][2]
             IN  (name \in DOMAIN self.operations
                     /\ self.operations[name].kind = "function")
                    => /\ calls'[c].status # "raised"
                       /\ calls'[c].doc = a.doc
                       /\ Last(calls'[c].trace).context = a.data
                       /\ name \in DOMAIN calls'[c].data
                       /\ calls'[c].data[name] =
                              FunctionReturns(self.operations[name].fn, a.data, settings)
                       /\ \A n \in DOMAIN a.data \ {name} :
                              n \in DOMAIN calls'[c].data /\ calls'[c].data[n] = a.data[n]

(* the operations of Pipeline p that a step replaces or adds                *)
ChangedOperations(p) ==
    {n \in DOMAIN pipes'[p].pipe.operations :
        n \notin DOMAIN pipes[p].pipe.operations
           \/ pipes'[p].pipe.operations[n] # pipes[p].pipe.operations[n]}

(* C12 as stated: a registered step is invoked with the Doc of the call,   *)
(* the context so far and its settings and its result stored under its     *)
(* name, and every operation a Pipeline holds stays registered and         *)
(* unchanged in every step, a registration included.                       *)
C12_RegistrationKeepsEveryOperation ==
    [][/\ RegisteredStepRuns
       /\ \A p \in PipeIds :
             \A n \in DOMAIN pipes[p].pipe.operations :
                /\ n \in DOMAIN pipes'[p].pipe.operations
                /\ pipes'[p].pipe.operations[n] = pipes[p].pipe.operations[n]]_vars

(* C12, amended: a registered step is invoked with the Doc of the call,    *)
(* the context so far and its settings and its result stored under its     *)
(* name; a registration leaves every operation under another name          *)
(* registered and unchanged, and replaces the operation that was held      *)
(* under the registered name.                                              *)
C12_RegistrationKeepsOtherOperations ==
    [][/\ RegisteredStepRuns
       /\ \A p \in PipeIds :
             /\ DOMAIN pipes[p].pipe.operations \subseteq DOMAIN pipes'[p].pipe.operations
             /\ Cardinality(ChangedOperations(p)) <= 1
             /\ \A n \in ChangedOperations(p) :
                   pipes'[p].pipe.operations[n].kind = "function"]_vars

(* C12 witness: a call that ran a registered step after another step and   *)
(* returned the settings of the step under its name, on a Pipeline whose   *)
(* Raw operation was replaced by a registration.                           *)
C12_Witness ==
    \E c \in CallIds :
       /\ calls[c].status = "returned"
       /\ Len(calls[c].trace) >= 2
       /\ Last(calls[c].trace).name = "CUSTOM_STEP"
       /\ Last(calls[c].trace).context # EmptyDict
       /\ calls[c].data["CUSTOM_STEP"] = Argument1
       /\ "Raw" \in DOMAIN pipes[calls[c].pipe].pipe.operations
       /\ pipes[calls[c].pipe].pipe.operations["Raw"].kind = "function"

(* C13: after construction, steps is the list of (name, kwargs) pairs in   *)
(* the declared order: a bare name or a one-element tuple gives            *)
(* (name, {}), a (name, kwargs) pair is kept with its kwargs.              *)
C13_StepsNormalised ==
    \A p \in PipeIds :
       LET given == pipes[p].declared
           steps == pipes[p].pipe.steps
       IN  /\ Len(steps) = Len(given)
           /\ \A k \in 1..Len(given) :
                 /\ Len(steps[k]) = 2
                 /\ steps[k][1] = given[k].name
                 /\ given[k].form \in {"str", "tuple1"} => steps[k][2] = EmptyDict
                 /\ given[k].form \in {"tuple2", "list2"} => steps[k][2] = given[k].kwargs

(* C13 witness: a Pipeline constructed from a bare name, a one-element     *)
(* tuple and a pair with keyword arguments, in that order.                 *)
C13_Witness ==
    \E p \in PipeIds :
       /\ Len(pipes[p].declared) = 3
       /\ pipes[p].declared[1].form = "str"
       /\ pipes[p].declared[2].form = "tuple1"
       /\ pipes[p].declared[3].form = "tuple2"
       /\ pipes[p].declared[3].kwargs # EmptyDict
       /\ pipes[p].pipe.steps[3] = <<"Entities", TestMapping>>

(* C14: after construction no call of a Pipeline and no operation on a Doc *)
(* of the Pipeline adds, replaces or removes an entry of the Pipeline's    *)
(* model registry: it stays as the constructor left it.                    *)
C14_RegistryReadOnlyAfterConstruction ==
    \A p \in PipeIds : registries[pipes[p].pipe.nlps] = pipes[p].built_nlps

(* what the step of a call gives when the call runs alone on the Pipeline  *)
(* as constructed                                                          *)
SequentialOutcome(a) ==
    LET self == pipes[a.pipe].pipe
        st == [EmptyHeap EXCEPT
                  !.registries = <<pipes[a.pipe].built_nlps>>,
                  !.docs = <<NewDocObject(docs[a.doc].raw, self.language,
                                          self.hint_language, 1)>>]
    IN  apply_operation(st, self.operations[self.steps[1][1]], 1, self.steps[1][2])

(* the value of a step without the identity of the Doc it was computed on  *)
ValueOf(oper, v) ==
    IF oper # "Entities" THEN <<v>>
    ELSE <<v.ents_of.lang, v.ents_of.model, v.ents_of.nlp, v.ents_of.text, v.attrs>>

(* C15: whatever the interleaving of concurrent calls of one Pipeline,     *)
(* each with a Doc of its own, a call fails only with the exception, and   *)
(* returns only the value, that it gives when the calls run one after the  *)
(* other; no call fails on the lookup of a registry entry.                 *)
C15_ConcurrentCallsAsSequential ==
    \A c \in CallIds :
       /\ calls[c].status = "raised"
             => /\ calls[c].exc.kind # "KeyError"
                /\ SequentialOutcome(calls[c]).exc = calls[c].exc
       /\ calls[c].status = "returned"
             => /\ ~Raised(SequentialOutcome(calls[c]))
                /\ LET oper == pipes[calls[c].pipe].pipe.steps[1][1]
                   IN  ValueOf(oper, SequentialOutcome(calls[c]).val)
                          = ValueOf(oper, calls[c].data[oper])

(* C16: after construction with models the registry of the Pipeline holds  *)
(* the loaded model of every triple (id, lang, path) at [lang][id], and    *)
(* however many calls follow, every custom model has been loaded once and  *)
(* the default model of a language at most once.                           *)
C16_ModelsLoadedOnce ==
    \A p \in PipeIds :
       LET reg == registries[pipes[p].pipe.nlps]
           models == pipes[p].models
       IN  /\ \A k \in 1..Len(models) :
                 /\ models[k][2] \in DOMAIN reg
                 /\ models[k][1] \in DOMAIN reg[models[k][2]]
                 /\ reg[models[k][2]][models[k][1]] = <<"custom", models[k][3]>>
                 /\ Count(stats.spacy_load, <<"custom", models[k][3]>>) = 1
           /\ \A k \in DOMAIN stats.spacy_load :
                 k[1] = "default" => stats.spacy_load[k] <= 1

(* C16 witness: two calls of a Pipeline with two custom models of one      *)
(* language have returned, both annotated with the default model of that   *)
(* language, which was loaded once.                                        *)
C16_Witness ==
    /\ Len(calls) = 2
    /\ \A c \in CallIds : calls[c].status = "returned" /\ Len(calls[c].trace) >= 1
    /\ \E p \in PipeIds : pipes[p].models = DutchModels
    /\ Count(stats.spacy_load, <<"default", "nl">>) = 1
    /\ Count(stats.nlp, <<1, "nl", None>>) = 1
    /\ Count(stats.nlp, <<2, "nl", None>>) = 1

(* the model resolutions that fail in a step: the calls newly recorded as  *)
(* raising a missing default or a missing custom model                     *)
FailedResolutions ==
    {x \in seen'.raised \ seen.raised :
        x.exc.kind = MissingModel /\ x.exc.msg[1] \in {"default", "custom"}}

(* C17: a call whose model resolution fails raises a missing-model error   *)
(* and leaves the model registry and the annotation caches of the Doc as   *)
(* they were before the call.                                              *)
C17_FailedResolutionLeavesNoTrace ==
    [][FailedResolutions # {}
          => /\ registries' = registries
             /\ lru'["load_spacy_doc"] = lru["load_spacy_doc"]
             /\ lru'["find_ents"] = lru["find_ents"]
             /\ handed' = handed]_vars

(* the kind of the error a missing default model gives                     *)
MissingDefaultKind == get_default_nlp_uncached(EmptyHeap, "xx").exc.kind

(* the values a message is built from                                      *)
Names(msg) == {msg[i] : i \in 2..Len(msg)}

(* C18: the error of a custom model id that is absent for the effective    *)
(* language differs in kind from the error of a missing default model and  *)
(* its message names the model id and the language; the message of a       *)
(* missing default model names the language.                               *)
C18_MissingCustomDistinctFromMissingDefault ==
    \A c \in CallIds :
       (calls[c].status = "raised" /\ calls[c].exc.kind = MissingModel)
          => LET a == calls[c]
                 self == pipes[a.pipe].pipe
                 op == self.operations[self.steps[a.i][1]]
             IN  /\ a.exc.msg[1] = "custom"
                       => /\ a.exc.kind # MissingDefaultKind
                          /\ get_model(Heap, op, a.doc).val \in Names(a.exc.msg)
                          /\ EffectiveNow(a.doc) \in Names(a.exc.msg)
                 /\ a.exc.msg[1] = "default"
                       => EffectiveNow(a.doc) \in Names(a.exc.msg)

(* the mapped model of an Entities step is absent for the Doc of a call:   *)
(* the mapping has no entry for the effective language, or the registry    *)
(* has no model of the mapped id for it                                    *)
MappedModelAbsent(a, op) ==
    LET mapping == DictItem(op.kwargs, "model_mapping")[3]
        lang == EffectiveNow(a.doc)
        reg == registries[docs[a.doc].nlps]
    IN  \/ ~PayloadHas(mapping, lang)
        \/ lang \notin DOMAIN reg
        \/ PayloadGet(mapping, lang) \notin DOMAIN reg[lang]

(* C19: an Entities step with a model_mapping whose mapped model is        *)
(* absent for the Doc does not raise but returns the entities of the       *)
(* default model; it raises only when the default model of the effective   *)
(* language cannot be loaded.                                              *)
C19_EntitiesFallsBackToDefault ==
    \A c \in CallIds :
       LET a == calls[c]
           self == pipes[a.pipe].pipe
       IN  /\ (a.status = "raised" /\ a.exc.kind = MissingModel
                  /\ self.operations[self.steps[a.i][1]].cls = "Entities"
                  /\ DictHas(self.steps[a.i][2], "model_mapping"))
                 => EffectiveNow(a.doc) \notin InstalledLangs
           /\ \A i \in 1..Len(a.trace) :
                 (/\ a.trace[i].name = "Entities"
                  /\ DictHas(self.steps[i][2], "model_mapping")
                  /\ MappedModelAbsent(a, self.operations["Entities"]))
                    => a.trace[i].result.ents_of.model = None

(* what the operation of the next step of a running call does              *)
StepOutcome(a) ==
    LET self == pipes[a.pipe].pipe
        oper == self.steps[a.i][1]
    IN  IF oper \notin DOMAIN self.operations
        THEN Raise(Heap, "KeyError", <<oper>>)
        ELSE apply_operation(Heap, self.operations[oper], a.doc, self.steps[a.i][2])

(* C20: when a step of a call raises, the call ends with that very         *)
(* exception, no later step runs and the call returns no mapping; a call   *)
(* returns only after every step has run without raising.                  *)
C20_FailingStepAbortsCall ==
    [][\A c \in CallIds :
          /\ calls[c].status = "raised" => calls'[c] = calls[c]
          /\ (calls[c].status = "running" /\ calls'[c] # calls[c])
                => IF Raised(StepOutcome(calls[c]))
                   THEN /\ calls'[c].status = "raised"
                        /\ calls'[c].exc = StepOutcome(calls[c]).exc
                        /\ calls'[c].trace = calls[c].trace
                   ELSE /\ calls'[c].status # "raised"
                        /\ Len(calls'[c].trace) = Len(calls[c].trace) + 1
          /\ calls'[c].status = "returned"
                => /\ Len(calls'[c].trace) = Len(pipes'[calls'[c].pipe].pipe.steps)
                   /\ calls'[c].exc = NoExc]_vars

(* C20 witness: a call of a Pipeline of three steps that has ended with    *)
(* the exception of its second step, after which nothing ran.              *)
C20_Witness ==
    \E c \in CallIds :
       /\ calls[c].status = "raised"
       /\ calls[c].exc.kind # None
       /\ Len(pipes[calls[c].pipe].pipe.steps) = 3
       /\ calls[c].i = 2
       /\ Len(calls[c].trace) = 1

(* the Docs constructed with an explicit language                          *)
ExplicitDocs == {d \in DocIds : docs[d].is_detected_language = False}

(* C21: on a Doc constructed with an explicit language no read of language *)
(* or is_reliable_language runs the detector, whatever was called before;  *)
(* is_reliable_language is True and language stays the supplied code.      *)
C21_ExplicitLanguageNeverDetected ==
    [][\A d \in ExplicitDocs :
          /\ Truthy(docs[d].language)
          /\ language(Heap, d).val = docs[d].language
          /\ is_reliable_language(Heap, d).val = True
          /\ language(Heap, d).st.stats.cld2 = stats.cld2
          /\ is_reliable_language(Heap, d).st.stats.cld2 = stats.cld2
          /\ docs'[d].language = docs[d].language
          /\ docs'[d].is_reliable = True
          /\ Count(stats'.cld2_prop, d) = 0
          /\ \A x \in seen'.returned["language"] :
                x.doc = d => x.val = docs[d].language
          /\ \A x \in seen'.returned["is_reliable_language"] :
                x.doc = d => x.val = True]_vars

(* C21 witness: a Doc constructed with the language English whose          *)
(* language and reliability were read, and on which detect_language('nl')  *)
(* was called and gave Dutch.                                              *)
C21_Witness ==
    \E d \in ExplicitDocs :
       /\ docs[d].language = "en"
       /\ \E x \in seen.returned["language"] : x.doc = d
       /\ \E x \in seen.returned["is_reliable_language"] : x.doc = d
       /\ \E x \in seen.returned["detect_language"] :
             x.doc = d /\ x.val = <<True, "nl">>

(* C22: on a Doc constructed with missing (None) or empty raw input, clean *)
(* and clean_text with any flags return the empty string and never raise.  *)
C22_MissingRawCleansToEmpty ==
    /\ \A x \in CleanReturns :
          CleanDoc_raw(docs[x.doc].raw) = <<>> => x.val = <<>>
    /\ \A x \in seen.raised :
          x.op \in {"clean", "clean_text"} => CleanDoc_raw(docs[x.doc].raw) # <<>>

(* C23: with all four cleaning passes enabled the cleaned text is never    *)
(* longer than the raw text.                                               *)
C23_CleanNeverLonger ==
    \A x \in CleanReturns :
       EffectiveFlags(x) = CleanDefaults => Len(x.val) <= Len(docs[x.doc].raw)

(* C24: on a Doc built from the empty string nwords and nsents are 0, ents *)
(* is the empty list, complexity is 100 and extract_keyterms() is the      *)
(* empty list, and none of them raises.                                    *)
EmptyDocs == {d \in DocIds : docs[d].raw = TEXT_EMPTY}

StatMembers == {"nwords", "nsents", "ents", "complexity", "extract_keyterms"}

C24_EmptyDocStatistics ==
    /\ \A x \in seen.raised : x.doc \in EmptyDocs => x.op \notin StatMembers
    /\ \A x \in seen.returned["nwords"] : x.doc \in EmptyDocs => x.val = 0
    /\ \A x \in seen.returned["nsents"] : x.doc \in EmptyDocs => x.val = 0
    /\ \A x \in seen.returned["ents"] : x.doc \in EmptyDocs => ent_list(x.val) = <<>>
    /\ \A x \in seen.returned["complexity"] : x.doc \in EmptyDocs => x.val = 100
    /\ \A x \in seen.returned["extract_keyterms"] :
          x.doc \in EmptyDocs /\ x.call = NoArgs => x.val = <<>>

C24_Witness ==
    \E d \in EmptyDocs :
       /\ \A m \in {"nwords", "nsents", "ents", "complexity"} :
             \E x \in seen.returned[m] : x.doc = d
       /\ \E x \in seen.returned["extract_keyterms"] : x.doc = d /\ x.call = NoArgs

(* C25: extract_keyterms called with a ranker that is not offered raises a *)
(* ValueError naming the rankers offered, on every Doc, the empty one      *)
(* included, whatever the other arguments.                                 *)
RankerOf(call) == Bind(KeytermParams, <<"textrank", "10">>, call)[1]

Offered(ranker) == \E i \in 1..Len(Rankers) : Rankers[i] = ranker

C25_UnknownRankerRaises ==
    \A x \in seen.returned["extract_keyterms"] : Offered(RankerOf(x.call))

(* C26: on a Doc with words extract_keyterms takes each of the rankers     *)
(* textrank, sgrank and singlerank and returns a list of key terms.        *)
DocumentedRankers == {"textrank", "sgrank", "singlerank"}

C26_DocumentedRankersAccepted ==
    \A x \in seen.raised :
       x.op = "extract_keyterms" /\ tokens(docs[x.doc].raw) > 0
          => RankerOf(x.call) \notin DocumentedRankers

(* C28: every step of a call runs the operation that was configured with   *)
(* the keyword arguments of that step, also when a name is declared more   *)
(* than once with different keyword arguments.                             *)
C28_StepRunsOwnConfiguration ==
    \A c \in CallIds :
       LET a == calls[c]
           self == pipes[a.pipe].pipe
       IN  \A i \in 1..Len(a.trace) :
              self.operations[self.steps[i][1]].kwargs = self.steps[i][2]

(* C27: a document embedding asked of vectors in Redis raises the idf      *)
(* weighting mismatch error exactly when the idf_weighting asked for       *)
(* differs from the one the vectors were loaded into Redis with, and       *)
(* never when the two are the same.                                        *)
EmbeddingMember == "generate_gensim_document_embedding"

RequestedWeighting(call) == Bind(EmbeddingParams, EmbeddingDefaults, call)[4]

StoredWeighting == gensim.redis[<<"w2v", "nl">>].idf_weighting

FromRedis(val) == val # <<>> /\ \A term \in val[1] : term.vector[1] = "redis"

C27_MismatchExactlyWhenWeightingsDiffer ==
    [][/\ \A x \in seen'.raised \ seen.raised :
             x.op = EmbeddingMember /\ x.exc.kind = MismatchError
                => StoredWeighting # RequestedWeighting(x.call)
       /\ \A x \in seen'.returned[EmbeddingMember] \ seen.returned[EmbeddingMember] :
             FromRedis(x.val) => StoredWeighting = RequestedWeighting(x.call)]_vars

(* C30: the vectors a document embedding is computed from are those of the *)
(* model_uri of the call: two calls with different model_uri never use the *)
(* same cached model.                                                      *)
RequestedUri(call) == Bind(EmbeddingParams, EmbeddingDefaults, call)[1]

C30_EmbeddingUsesRequestedModel ==
    \A x \in seen.returned[EmbeddingMember] :
       x.val # <<>> =>
          \A term \in x.val[1] :
             IF RequestedUri(x.call) \in RedisUris THEN term.vector[1] = "redis"
             ELSE term.vector = <<"file", RequestedUri(x.call)>>

(* C29: two calls of one Pipeline on the same text give equal results:     *)
(* nothing an earlier call leaves behind changes what a later call         *)
(* returns or raises.                                                      *)
Finished(c) == calls[c].status # "running"

C29_SameTextSameResult ==
    \A c1, c2 \in CallIds :
       /\ Finished(c1) /\ Finished(c2)
       /\ calls[c1].pipe = calls[c2].pipe
       /\ docs[calls[c1].doc].raw = docs[calls[c2].doc].raw
       => /\ calls[c1].status = calls[c2].status
          /\ calls[c1].exc = calls[c2].exc
          /\ calls[c1].data = calls[c2].data

=============================================================================
